---- MODULE Spec2Model ----
(***************************************************************************)
(* notion-flexible-blocks: create() = toBlocks -> plan -> execute.         *)
(* The planner splits a Block forest into path-addressed append calls; the *)
(* executor performs them against the remote store under a retry policy.   *)
(* migrator-example: PageIssuer.issue() and Migrator.migrate(), which use  *)
(* the same variables for their own state (see their sections).            *)
(***************************************************************************)
EXTENDS Integers, Sequences, FiniteSets, TLC

VARIABLES
  fbs,      \* the FlexibleBlock[] given to create()
  pc,       \* where create() stands
  result,   \* what plan(fbs) gave
  entry,    \* execute(): the index of the plan entry of the current iteration
  pos,      \* blockId(): how many indices of the path are consumed
  current,  \* blockId(): the BlockNode reached, as its place in the node tree
  cursor,   \* blockId(): the start_cursor of the next list call (0: undefined)
  known,    \* the Executor's node tree: place of a node |-> ids of its children
  remote,   \* the remote store: the tree of blocks under the root block
  env,      \* what the remote side may still do in this run
  i,        \* defaultRetryable(): the loop counter
  lastErr,  \* the error of the latest failed attempt of the current operation
  thrown,   \* the error create() rejected with
  hist      \* history: attempts and delays of the current operation, applied
            \* entries, ids returned by the appends, nodes listed

vars == <<fbs, pc, result, entry, pos, current, cursor, known, remote,
          env, i, lastErr, thrown, hist>>

(***************************************************************************)
(* Program constants                                                       *)
(***************************************************************************)
\* plan.ts:5
MAX_BLOCKS_LENGTH == 100
\* flexible-block.ts:5 (the same limit, declared a second time)
FB_MAX_BLOCKS_LENGTH == 100
\* util.ts:6
DEFAULT_RETRY_COUNT == 12

Min(a, b) == IF a < b THEN a ELSE b

(***************************************************************************)
(* Content model (block.ts, inline.ts)                                     *)
(***************************************************************************)
\* kinds whose case in Planner.visit rejects children
ChildlessKinds ==
  {"embed", "bookmark", "image", "video", "pdf", "file", "audio", "code",
   "equation", "divider", "breadcrumb", "table_of_contents", "link_to_page",
   "heading_1", "heading_2", "heading_3", "paragraph", "table_row",
   "synced_block"}

\* kinds whose case in Planner.visit embeds children without a type test
ContainerKinds ==
  {"column", "quote", "bulleted_list_item", "numbered_list_item", "to_do",
   "toggle", "template", "callout"}

\* block.data.type may be absent in the request types
NoType == "undefined"

\* inline(): { type: 'inline', data }
inline(data) == [type |-> "inline", data |-> data]

\* the data of one text() inline
TextData(n) == [type |-> "text", content |-> n]

\* block(): { type: 'block', data, children }; children <<>> stands for both
\* undefined and [] (the code only ever tests children?.length)
block(data, children) == [type |-> "block", data |-> data, children |-> children]

\* paragraph(contents): rich_text is contents.map(i => i.data)
paragraph(contents) ==
  block([type |-> "paragraph",
         rich_text |-> [j \in 1..Len(contents) |-> contents[j].data]], <<>>)

maximumDepthToExist_narrow(b) ==
  CASE b.data.type = "column_list" -> 0
    [] b.data.type = "table" -> 1
    [] b.data.type = "column" -> 1
    [] OTHER -> 3

maximumDepthToExist(b) ==
  CASE b.data.type = "column_list" -> 0
    [] b.data.type = "table" -> 1
    [] b.data.type = "column" -> 1
    [] OTHER -> 2

(***************************************************************************)
(* Sequence helpers.  Loops over sibling lists are written as maps and     *)
(* balanced concatenations: a sibling list may hold hundreds of blocks.    *)
(***************************************************************************)
RECURSIVE FlattenRange(_, _, _)
FlattenRange(ss, lo, hi) ==
  IF lo > hi THEN <<>>
  ELSE IF lo = hi THEN ss[lo]
  ELSE LET mid == (lo + hi) \div 2 IN
       FlattenRange(ss, lo, mid) \o FlattenRange(ss, mid + 1, hi)

\* the concatenation of a sequence of sequences
Flatten(ss) == FlattenRange(ss, 1, Len(ss))

\* a sequence given by a map, with every element evaluated once
Tabulate(f) == SubSeq(f, 1, Len(f))

Front(path) == SubSeq(path, 1, Len(path) - 1)
Last(path) == path[Len(path)]

SetMin(S) == CHOOSE m \in S : \A x \in S : m <= x
SetMax(S) == CHOOSE m \in S : \A x \in S : m >= x

(***************************************************************************)
(* toBlocks (flexible-block.ts)                                            *)
(***************************************************************************)
\* chunk() without the slicing
chunk_whole(inlineBuf, ret) ==
  IF 0 < Len(inlineBuf) THEN Append(ret, paragraph(inlineBuf)) ELSE ret

\* chunk() as a do ... while loop: the first paragraph is pushed unconditionally
chunk_dowhile(inlineBuf, ret) ==
  LET n == (Len(inlineBuf) + FB_MAX_BLOCKS_LENGTH - 1) \div FB_MAX_BLOCKS_LENGTH IN
  ret \o [j \in 1..(IF n = 0 THEN 1 ELSE n) |->
            paragraph(SubSeq(inlineBuf, FB_MAX_BLOCKS_LENGTH * (j - 1) + 1,
                             Min(FB_MAX_BLOCKS_LENGTH * j, Len(inlineBuf))))]

RECURSIVE chunk(_, _)
\* while (0 < inlineBuf.length) { ret.push(paragraph(slice(0,MAX))); splice(0,MAX) }
chunk(inlineBuf, ret) ==
  IF 0 < Len(inlineBuf)
  THEN chunk(SubSeq(inlineBuf, FB_MAX_BLOCKS_LENGTH + 1, Len(inlineBuf)),
             Append(ret, paragraph(SubSeq(inlineBuf, 1,
                                  Min(FB_MAX_BLOCKS_LENGTH, Len(inlineBuf))))))
  ELSE ret

\* The for-of loop of toBlocks.  When the loop reaches the block at index k,
\* inlineBuf holds the inlines since the previous block (or the start); the
\* loop pushes chunk() of them and then the block.  After the loop the
\* trailing inlines are chunked.
toBlocks(s) ==
  LET blockIdx == {k \in 1..Len(s) : s[k].type = "block"}
      prev(k) == SetMax({j \in blockIdx : j < k} \cup {0})
      at(k) == IF s[k].type = "block"
               THEN Append(chunk(SubSeq(s, prev(k) + 1, k - 1), <<>>), s[k])
               ELSE <<>>
      last == SetMax(blockIdx \cup {0})
  IN Flatten(Tabulate([k \in 1..Len(s) |-> at(k)]))
       \o chunk(SubSeq(s, last + 1, Len(s)), <<>>)

(***************************************************************************)
(* Planner (plan.ts)                                                       *)
(***************************************************************************)
NoErr == "none"

\* blocks.reduce((a, b) => Math.min(a, maximumDepthToExist(b)), 99)
allowedDepth(blocks) ==
  SetMin({maximumDepthToExist(blocks[k]) : k \in 1..Len(blocks)} \cup {99})

bundlableSize_off(allowed, depth) ==
  IF allowed < depth THEN 0 ELSE MAX_BLOCKS_LENGTH + 1

bundlableSize_strict(allowed, depth) ==
  IF allowed <= depth THEN 0 ELSE MAX_BLOCKS_LENGTH

\* allowedDepth < depth ? 0 : MAX_BLOCKS_LENGTH
bundlableSize(allowed, depth) ==
  IF allowed < depth THEN 0 ELSE MAX_BLOCKS_LENGTH

splitDepth_keep(depth) == depth

\* this.visit(block, 0, childPath): a split block is the top of its own call
splitDepth(depth) == 0

childPath_bundled(path, nBundled, nSplitted) == Append(path, nBundled)

\* [...path, bundledBors.length + splittedBors.length]
childPath(path, nBundled, nSplitted) == Append(path, nBundled + nSplitted)

batches_whole(splittedBors, path) ==
  IF Len(splittedBors) = 0 THEN <<>>
  ELSE <<[path |-> path, bors |-> splittedBors]>>

\* for (i = 0; i < splittedBors.length; i += MAX) push({path, bors: slice(i, i+MAX)})
batches(splittedBors, path) ==
  [j \in 1..((Len(splittedBors) + MAX_BLOCKS_LENGTH - 1) \div MAX_BLOCKS_LENGTH) |->
     [path |-> path,
      bors |-> SubSeq(splittedBors, (j - 1) * MAX_BLOCKS_LENGTH + 1,
                      Min(j * MAX_BLOCKS_LENGTH, Len(splittedBors)))]]

\* blocks.every(b => b.type == type)
testBlockTypes_any(blocks, type) == TRUE

testBlockTypes(blocks, type) == \A j \in 1..Len(blocks) : blocks[j].type = type

\* a payload (NBlock0/1/2): the block's data plus its embedded children;
\* children <<>> stands for an absent or undefined children field
Payload(data, children) ==
  [type |-> data.type, rich_text |-> data.rich_text, children |-> children]

Fail(kind, msg) == [err |-> kind, msg |-> msg]

RECURSIVE visit(_, _, _), visitEach(_, _, _)

\* Planner.visit: the NBlock0 of one block, built at nesting level depth.
\* Returns [err, msg] or [err, bor, plan]: plan holds the entries pushed to
\* this.plan during the call.  err = "onError" when the error handler is
\* invoked, "TypeError" when the code calls a method of undefined.
visit(b, depth, path) ==
  LET t == b.data.type IN
  IF t \in ChildlessKinds
  THEN IF Len(b.children) > 0
       THEN Fail("onError", "cannot have children")
       ELSE [err |-> NoErr, bor |-> Payload(b.data, <<>>), plan |-> <<>>]
  ELSE IF t \in {"table", "column_list"}
  THEN LET r == visitEach(b.children, depth + 1, path) IN
       IF r.err # NoErr THEN Fail(r.err, r.msg)
       ELSE IF ~r.defined
            THEN Fail("TypeError", "every of undefined")
       ELSE IF ~testBlockTypes(r.bors, IF t = "table" THEN "table_row" ELSE "column")
            THEN Fail("onError", "wrong child type")
       ELSE [err |-> NoErr, bor |-> Payload(b.data, r.bors), plan |-> r.plan]
  ELSE IF t \in ContainerKinds
  THEN LET r == visitEach(b.children, depth + 1, path) IN
       IF r.err # NoErr THEN Fail(r.err, r.msg)
       ELSE [err |-> NoErr, bor |-> Payload(b.data, r.bors), plan |-> r.plan]
  ELSE IF t = NoType
  THEN Fail("onError", "Block type unspecified")
  ELSE Fail("Error", "never")

\* Planner.visitEach.  Returns [err, msg] or [err, defined, bors, plan];
\* defined = FALSE is the code's `undefined` result.  In the for-of loop the
\* k-th block is bundled iff fewer than bundlableSize blocks were bundled
\* before it, that is iff k <= size; the first block whose visit fails ends
\* the whole pass.
visitEach(blocks, depth, path) ==
  IF Len(blocks) = 0
  THEN [err |-> NoErr, defined |-> FALSE, bors |-> <<>>, plan |-> <<>>]
  ELSE LET size == bundlableSize(allowedDepth(blocks), depth)
           nBundled(k) == Min(k - 1, size)
           one(k) == IF nBundled(k) < size
                     THEN visit(blocks[k], depth,
                                childPath(path, nBundled(k), k - 1 - nBundled(k)))
                     ELSE visit(blocks[k], splitDepth(depth),
                                childPath(path, nBundled(k), k - 1 - nBundled(k)))
           rs == Tabulate([k \in 1..Len(blocks) |-> one(k)])
           bad == {k \in 1..Len(blocks) : rs[k].err # NoErr}
       IN IF bad # {} THEN rs[SetMin(bad)]
          ELSE LET nb == Min(Len(blocks), size)
                   bundledBors == [k \in 1..nb |-> rs[k].bor]
                   splittedBors == [k \in 1..(Len(blocks) - nb) |-> rs[nb + k].bor]
               IN [err |-> NoErr,
                   defined |-> Len(bundledBors) > 0,
                   bors |-> bundledBors,
                   plan |-> Flatten([k \in 1..Len(blocks) |-> rs[k].plan])
                              \o batches(splittedBors, path)]

sortPlan_none(p) == p

\* this.plan.sort((a, b) => a.path.length - b.path.length): a stable sort
sortPlan(p) ==
  LET top == SetMax({Len(p[k].path) : k \in 1..Len(p)} \cup {0}) IN
  Flatten([len1 \in 1..(top + 1) |-> SelectSeq(p, LAMBDA e : Len(e.path) = len1 - 1)])

\* Planner.run; [status, msg, plan], status "ok" when a plan is returned
run(s) ==
  LET r == visitEach(toBlocks(s), 0, <<>>) IN
  IF r.err # NoErr THEN [status |-> r.err, msg |-> r.msg, plan |-> <<>>]
  ELSE [status |-> "ok", msg |-> "",
        plan |-> sortPlan(IF r.defined
                          THEN <<[path |-> <<>>, bors |-> r.bors]>> \o r.plan
                          ELSE r.plan)]

\* plan(fbs, onError = defaultErrorHandler)
plan(s) == run(s)

(***************************************************************************)
(* Inputs: bounded families of FlexibleBlock sequences                     *)
(***************************************************************************)
\* largest number of blocks in the exhaustively enumerated forests
MaxNodes == 3
\* longest chain of nested list items
MaxChain == 8
\* widest sibling list
MaxWide == 201

\* one kind of each class the planner and maximumDepthToExist tell apart
InputKinds ==
  {"column_list", "table", "column", "table_row", "paragraph",
   "bulleted_list_item", NoType}

Shape(k, c) == [k |-> k, c |-> c]

\* d lists the depths of the blocks of a forest in document order
ValidDepths(n, d) ==
  /\ n > 0 => d[1] = 0
  /\ \A k \in 2..n : d[k] <= d[k - 1] + 1

SortedSeq(S) ==
  [j \in 1..Cardinality(S) |-> CHOOSE k \in S : Cardinality({x \in S : x < k}) = j - 1]

RECURSIVE ShapeOf(_, _, _, _, _)
\* the forest whose blocks lo..hi, in document order, have kinds ks and depths d
ShapeOf(ks, d, lo, hi, lvl) ==
  LET rs == SortedSeq({k \in lo..hi : d[k] = lvl}) IN
  [j \in 1..Len(rs) |->
     Shape(ks[rs[j]],
           ShapeOf(ks, d, rs[j] + 1, IF j < Len(rs) THEN rs[j + 1] - 1 ELSE hi, lvl + 1))]

Rep(n, sh) == [j \in 1..n |-> sh]

Leaf == Shape("bulleted_list_item", <<>>)

RECURSIVE ChainShape(_)
\* n list items nested one inside the other
ChainShape(n) ==
  IF n = 0 THEN <<>> ELSE <<Shape("bulleted_list_item", ChainShape(n - 1))>>

RECURSIVE ChainOver(_, _)
\* n list items nested one inside the other, the innermost holding forest c
ChainOver(n, c) ==
  IF n = 0 THEN c ELSE <<Shape("bulleted_list_item", ChainOver(n - 1, c))>>

WideCounts == {1, 100, 101, 150, MaxWide}

\* n top-level list items, the one at index q holding m list items
WideShape(n, q, m) ==
  [j \in 1..n |-> IF j = q + 1 THEN Shape("bulleted_list_item", Rep(m, Leaf)) ELSE Leaf]

WideShapes ==
  {WideShape(n, q, m) : n \in WideCounts, q \in {0, 3, 99, 101}, m \in {0} \cup WideCounts}

\* a container of kind k holding m children of kind kc
KindShapes ==
  {<<Shape(k, Rep(m, Shape(kc, <<>>)))>> :
     k \in {"table", "column_list", "column"},
     kc \in {"table_row", "column", "paragraph"},
     m \in {1, 100, 101, MaxWide}}

ChainShapes ==
  {ChainOver(n, Rep(m, Leaf)) : n \in 0..MaxChain, m \in {0, 1, 2, 101, MaxWide}}

Item(c) == Shape("bulleted_list_item", c)

\* the forest of plan.test.ts "does not exceed block depth limit"
DepthTestShape ==
  <<Item(<<Item(<<Leaf, Leaf, Leaf>>),
           Item(<<Item(<<Leaf, Leaf>>), Item(<<Leaf, Leaf>>)>>)>>),
    Item(<<Leaf, Item(ChainShape(6))>>)>>

RECURSIVE MkBlocks(_, _)
\* the Block forest of a shape forest; every block's rich_text spells its
\* sibling-index path, so no two blocks of an input carry the same data
MkBlocks(shapes, prefix) ==
  [j \in 1..Len(shapes) |->
     LET label == Append(prefix, TextData(j - 1)) IN
     block([type |-> shapes[j].k, rich_text |-> label],
           MkBlocks(shapes[j].c, label))]

Inlines(from, n) == [j \in 1..n |-> inline(TextData(from + j))]

\* a inlines, a list item holding one child, b inlines, a leaf list item
FlexInputs ==
  {Inlines(1000, a) \o MkBlocks(<<Shape("bulleted_list_item", <<Leaf>>)>>, <<TextData(500)>>)
     \o Inlines(2000, b) \o MkBlocks(<<Leaf>>, <<TextData(600)>>) :
     a \in {0, 1, 100, 101}, b \in {0, 2, MaxWide}}
  \cup {Inlines(1000, a) : a \in {1, 100, MaxWide}}

BlockInputs(shapeSet) == {MkBlocks(sh, <<>>) : sh \in shapeSet}

\* the wide, deep and mixed inputs
LargeInputs ==
  BlockInputs(WideShapes) \cup BlockInputs(KindShapes)
  \cup BlockInputs(ChainShapes) \cup BlockInputs({DepthTestShape}) \cup FlexInputs

\* every forest of at most MaxNodes blocks over InputKinds
SmallInput(s) ==
  \E n \in 0..MaxNodes :
    \E d \in [1..n -> 0..(MaxNodes - 1)] :
      /\ ValidDepths(n, d)
      /\ \E ks \in [1..n -> InputKinds] :
           s = MkBlocks(ShapeOf(ks, d, 1, n, 0), <<>>)

(***************************************************************************)
(* State                                                                   *)
(***************************************************************************)
NoPlan == [status |-> "none", msg |-> "", plan |-> <<>>]

\* errors: the class of the thrown object and its code
Err(class, code) == [class |-> class, code |-> code]
NoError == Err("none", "none")

\* block ids are modelled by the place of the block in the remote tree: the
\* sequence of sibling indices from the root block (blocks are only appended)
RootId == <<>>

InitExec ==
  /\ pc = "start"
  /\ result = NoPlan
  /\ entry = 0
  /\ pos = 0
  /\ current = <<>>
  /\ cursor = 0
  /\ known = (<<>> :> <<>>)
  /\ i = 0
  /\ lastErr = NoError
  /\ thrown = NoError
  /\ hist = [attempts |-> 0, applied |-> <<>>, delays |-> <<>>, op |-> "none", lost |-> 0,
            returned |-> <<>>, listed |-> <<>>]

\* create(): plan(fbs) is evaluated before execute() is entered; an error of
\* the planner rejects create() with no Executor constructed
Plan ==
  /\ pc = "start"
  /\ result' = plan(fbs)
  /\ pc' = IF result'.status = "ok" THEN "loop" ELSE "thrown"
  /\ thrown' = IF result'.status = "ok" THEN NoError
               ELSE Err(IF result'.status = "TypeError" THEN "TypeError" ELSE "Error",
                        result'.msg)
  /\ UNCHANGED <<fbs, entry, pos, current, cursor, known, remote, env,
                 i, lastErr, hist>>

EmptyRemote == [type |-> "root", rich_text |-> <<>>, children |-> <<>>]

InitPlan ==
  /\ \/ SmallInput(fbs)
     \/ fbs \in LargeInputs
  /\ env = [pre |-> 0, pageSize |-> 100, budget |-> 0, ghosts |-> 0, fails |-> 0]
  /\ remote = EmptyRemote
  /\ InitExec

NextPlan == Plan

\* plan() applied to every input
SpecPlan == InitPlan /\ [][NextPlan]_vars

(***************************************************************************)
(* Retry policy (util.ts)                                                  *)
(***************************************************************************)
DEFAULT_RETRYABLE_ERROR_CODES ==
  {"conflict_error", "rate_limited", "internal_server_error", "service_unavailable"}

isRequestTimeoutError(e) == e.class = "RequestTimeoutError"
isAPIResponseError(e) == e.class = "APIResponseError"

isRetryableError_all(e) == TRUE

isRetryableError(e) ==
  \/ isRequestTimeoutError(e)
  \/ isAPIResponseError(e) /\ e.code \in DEFAULT_RETRYABLE_ERROR_CODES

inLoop_more(n) == n <= DEFAULT_RETRY_COUNT

\* for (let i = 0; i < DEFAULT_RETRY_COUNT; ++i): the attempt is inside the loop
inLoop(n) == n < DEFAULT_RETRY_COUNT

caught_few(n, e) == n < 2 /\ isRetryableError(e)

\* the catch clause swallows the error and the loop goes on; an error of the
\* attempt after the loop is not caught at all
caught(n, e) == inLoop(n) /\ isRetryableError(e)

\* what the caller of retryable() sees when an attempt's error is not caught
surfaced(previous, e) == e

\* the first delay two seconds
delay_late(n) == 1000 * 2^(n + 1)

\* await setTimeout(1000 * 2 ** i)
delay(n) == 1000 * 2^n

\* what a remote attempt may fail with
TransientErrors ==
  {Err("RequestTimeoutError", "notionhq_client_request_timeout")}
  \cup {Err("APIResponseError", c) : c \in DEFAULT_RETRYABLE_ERROR_CODES}

PermanentErrors ==
  {Err("APIResponseError", c) : c \in {"validation_error", "object_not_found", "unauthorized"}}
  \cup {Err("Error", "fetch failed")}

RemoteErrors == TransientErrors \cup PermanentErrors

(***************************************************************************)
(* Remote store                                                            *)
(***************************************************************************)
RECURSIVE NodeAt(_, _)
NodeAt(node, id) ==
  IF id = <<>> THEN node ELSE NodeAt(node.children[id[1] + 1], Tail(id))

RECURSIVE AppendAt(_, _, _)
\* blocks.children.append: the units, with all they embed, become the next
\* children of the block
AppendAt(node, id, units) ==
  IF id = <<>> THEN [node EXCEPT !.children = @ \o units]
  ELSE [node EXCEPT !.children[id[1] + 1] = AppendAt(@, Tail(id), units)]

\* the ids of children from + 1 .. from + n of a block
ChildIds(id, from, n) == [j \in 1..n |-> Append(id, from + j - 1)]

PreBlock(j) == [type |-> "paragraph", rich_text |-> <<TextData(0 - j)>>, children |-> <<>>]

\* the root block with the children it had before create()
RemoteWith(pre) ==
  [type |-> "root", rich_text |-> <<>>, children |-> [j \in 1..pre |-> PreBlock(j)]]

(***************************************************************************)
(* Executor (execute.ts)                                                   *)
(***************************************************************************)
\* BlockNode.blockId of the node at a place of the Executor's node tree
blockIdOf(place) ==
  IF place = <<>> THEN RootId ELSE known[Front(place)][Last(place) + 1]

pushRoot_front(children, ids) == ids \o children

\* for (const { id } of results) this.rootBlock.children.push({ blockId: id })
pushRoot(children, ids) == children \o ids

StartOp(op) == [hist EXCEPT !.attempts = 0, !.delays = <<>>, !.op = op]

\* for (const { path, bors } of plan): the next iteration, or the end
NextEntry ==
  /\ pc = "loop"
  /\ IF entry < Len(result.plan)
     THEN /\ entry' = entry + 1
          /\ pos' = 0
          /\ current' = <<>>
          /\ pc' = "blockId"
     ELSE /\ pc' = "done"
          /\ UNCHANGED <<entry, pos, current>>
  /\ UNCHANGED <<fbs, result, cursor, known, remote, env, i, lastErr, thrown, hist>>

\* blockId(): current = current.children[index], the children being known; an
\* index past the end leaves current undefined and the next use of it throws
BlockIdStep ==
  /\ pc = "blockId"
  /\ pos < Len(result.plan[entry].path)
  /\ current \in DOMAIN known
  /\ LET index == result.plan[entry].path[pos + 1] IN
     IF index + 1 \in 1..Len(known[current])
     THEN /\ current' = Append(current, index)
          /\ pos' = pos + 1
          /\ UNCHANGED <<pc, thrown>>
     ELSE /\ pc' = "thrown"
          /\ thrown' = Err("TypeError", "undefined")
          /\ UNCHANGED <<current, pos>>
  /\ UNCHANGED <<fbs, result, entry, cursor, known, remote, env, i, lastErr, hist>>

\* the children listed whether cached or not
BlockIdList_again ==
  /\ pc = "blockId"
  /\ pos < Len(result.plan[entry].path)
  /\ current # RootId
  /\ known' = (current :> <<>>) @@ known
  /\ cursor' = 0
  /\ pc' = "list"
  /\ i' = 0
  /\ lastErr' = NoError
  /\ hist' = [StartOp("list") EXCEPT !.listed = Append(@, current)]
  /\ UNCHANGED <<fbs, result, entry, pos, current, remote, env, thrown>>

\* blockId(): if (!current.children) { current.children = []; cursor = undefined; do ...
BlockIdList ==
  /\ pc = "blockId"
  /\ pos < Len(result.plan[entry].path)
  /\ current \notin DOMAIN known
  /\ known' = known @@ (current :> <<>>)
  /\ cursor' = 0
  /\ pc' = "list"
  /\ i' = 0
  /\ lastErr' = NoError
  /\ hist' = [StartOp("list") EXCEPT !.listed = Append(@, current)]
  /\ UNCHANGED <<fbs, result, entry, pos, current, remote, env, thrown>>

\* the append started and not awaited: the loop goes on to the next entry
BlockIdReturn_noawait ==
  /\ pc = "blockId"
  /\ pos = Len(result.plan[entry].path)
  /\ pc' = "loop"
  /\ i' = 0
  /\ lastErr' = NoError
  /\ hist' = StartOp("append")
  /\ UNCHANGED <<fbs, result, entry, pos, current, cursor, known, remote, env, thrown>>

\* blockId(): return current.blockId; execute() then calls retryable(append)
BlockIdReturn ==
  /\ pc = "blockId"
  /\ pos = Len(result.plan[entry].path)
  /\ pc' = "append"
  /\ i' = 0
  /\ lastErr' = NoError
  /\ hist' = StartOp("append")
  /\ UNCHANGED <<fbs, result, entry, pos, current, cursor, known, remote, env, thrown>>

\* an attempt of blocks.children.list succeeds: one page of children, cached
\* in the order returned; do ... while (cursor)
ListOk ==
  /\ pc = "list"
  /\ LET id == blockIdOf(current)
         kids == NodeAt(remote, id).children
         n == Min(env.pageSize, Len(kids) - cursor)
         more == cursor + n < Len(kids)
     IN /\ known' = [known EXCEPT ![current] = @ \o ChildIds(id, cursor, n)]
        /\ cursor' = IF more THEN cursor + n ELSE 0
        /\ pc' = IF more THEN "list" ELSE "blockId"
        /\ hist' = IF more THEN StartOp("list") ELSE [hist EXCEPT !.attempts = @ + 1]
  /\ i' = 0
  /\ lastErr' = NoError
  /\ UNCHANGED <<fbs, result, entry, pos, current, remote, env, thrown>>

\* an attempt fails with error e: caught and retried after a delay, or thrown
Failed_goon(op, e, applied) ==
  /\ lastErr' = e
  /\ hist' = [hist EXCEPT !.attempts = @ + 1, !.lost = IF applied THEN @ + 1 ELSE @]
  /\ IF caught(i, e)
     THEN pc' = op \o "_wait" /\ thrown' = thrown
     ELSE pc' = (IF op = "append" THEN "loop" ELSE "thrown") /\ thrown' = surfaced(lastErr, e)

Failed(op, e, applied) ==
  /\ lastErr' = e
  /\ hist' = [hist EXCEPT !.attempts = @ + 1, !.lost = IF applied THEN @ + 1 ELSE @]
  /\ IF caught(i, e)
     THEN pc' = op \o "_wait" /\ thrown' = thrown
     ELSE pc' = "thrown" /\ thrown' = surfaced(lastErr, e)

Spend(what) == [env EXCEPT !.budget = IF @ > 0 THEN @ - 1 ELSE @,
                           !.ghosts = IF what = "ghost" THEN @ - 1 ELSE @]

ListFail ==
  /\ pc = "list"
  /\ env.budget # 0
  /\ \E e \in RemoteErrors : Failed("list", e, FALSE)
  /\ env' = Spend("fail")
  /\ UNCHANGED <<fbs, result, entry, pos, current, cursor, known, remote, i>>

\* const { results } = await append(...): the ids of the blocks just created
AppendResults ==
  LET id == blockIdOf(current) IN
  ChildIds(id, Len(NodeAt(remote, id).children), Len(result.plan[entry].bors))

\* an attempt of blocks.children.append succeeds
AppendOk ==
  /\ pc = "append"
  /\ LET id == blockIdOf(current)
         bors == result.plan[entry].bors
         before == Len(NodeAt(remote, id).children)
     IN /\ remote' = AppendAt(remote, id, bors)
        /\ known' = IF Len(result.plan[entry].path) # 0 THEN known
                    ELSE [known EXCEPT ![<<>>] = pushRoot(@, ChildIds(id, before, Len(bors)))]
  /\ hist' = [hist EXCEPT !.attempts = @ + 1, !.applied = Append(@, entry),
                          !.returned = Append(@, AppendResults)]
  /\ pc' = "loop"
  /\ lastErr' = NoError
  /\ UNCHANGED <<fbs, result, entry, pos, current, cursor, env, i, thrown>>

\* an attempt of blocks.children.append fails and the store is unchanged
AppendFail ==
  /\ pc = "append"
  /\ env.budget # 0
  /\ \E e \in RemoteErrors : Failed("append", e, FALSE)
  /\ env' = Spend("fail")
  /\ UNCHANGED <<fbs, result, entry, pos, current, cursor, known, remote, i>>

\* an attempt of blocks.children.append times out at the client after the
\* store has applied it
AppendLost ==
  /\ pc = "append"
  /\ env.budget # 0
  /\ env.ghosts > 0
  /\ \E e \in {x \in RemoteErrors : isRequestTimeoutError(x)} : Failed("append", e, TRUE)
  /\ remote' = AppendAt(remote, blockIdOf(current), result.plan[entry].bors)
  /\ env' = Spend("ghost")
  /\ UNCHANGED <<fbs, result, entry, pos, current, cursor, known, i>>

\* the attempts not counted: ++i left out
Backoff_nocount ==
  /\ pc \in {"list_wait", "append_wait"}
  /\ hist' = [hist EXCEPT !.delays = Append(@, delay(i))]
  /\ i' = i
  /\ pc' = hist.op
  /\ UNCHANGED <<fbs, result, entry, pos, current, cursor, known, remote, env,
                 lastErr, thrown>>

\* await setTimeout(1000 * 2 ** i); ++i; the next attempt
Backoff ==
  /\ pc \in {"list_wait", "append_wait"}
  /\ hist' = [hist EXCEPT !.delays = Append(@, delay(i))]
  /\ i' = i + 1
  /\ pc' = hist.op
  /\ UNCHANGED <<fbs, result, entry, pos, current, cursor, known, remote, env,
                 lastErr, thrown>>

\* largest number of blocks in the exhaustively enumerated forests executed
MaxExecNodes == 2
\* most children the root block has before create()
MaxPre == 1
\* most append attempts applied by the store and reported as timed out
MaxGhost == 1
\* most failed attempts in a run on one of the larger inputs
MaxFailures == 2

Unlimited == 0 - 1

SmallExecInput(s) ==
  \E n \in 0..MaxExecNodes :
    \E d \in [1..n -> 0..(MaxExecNodes - 1)] :
      /\ ValidDepths(n, d)
      /\ \E ks \in [1..n -> InputKinds] :
           s = MkBlocks(ShapeOf(ks, d, 1, n, 0), <<>>)

\* inputs whose plans need children listed
DeepExecInputs ==
  BlockInputs({ChainShape(4), ChainShape(7), DepthTestShape,
               <<Item(<<Leaf, Item(<<Leaf, Item(<<Leaf, Item(<<Leaf, Leaf>>)>>)>>)>>)>>})

\* inputs whose plans split sibling lists
WideExecInputs ==
  BlockInputs({WideShape(101, 3, 101), WideShape(201, 3, 0),
               <<Item(Rep(100, Leaf) \o <<Item(ChainShape(3))>>)>>})
  \cup {Inlines(1000, 101) \o MkBlocks(<<Item(<<Leaf>>)>>, <<TextData(500)>>)}

Init ==
  /\ \/ /\ SmallExecInput(fbs)
        /\ \E pre \in 0..MaxPre :
             env = [pre |-> pre, pageSize |-> 100, budget |-> Unlimited, ghosts |-> 0, fails |-> 0]
     \/ /\ fbs \in DeepExecInputs
        /\ \E pre \in 0..MaxPre, ps \in {1, 100}, f \in {Unlimited, MaxFailures} :
             env = [pre |-> pre, pageSize |-> ps, budget |-> f,
                    ghosts |-> IF f = Unlimited THEN 0 ELSE MaxGhost, fails |-> 0]
     \/ /\ fbs \in WideExecInputs
        /\ \E pre \in 0..MaxPre :
             env = [pre |-> pre, pageSize |-> 100, budget |-> MaxFailures, ghosts |-> MaxGhost, fails |-> 0]
  /\ remote = RemoteWith(env.pre)
  /\ InitExec

Next ==
  \/ Plan
  \/ NextEntry
  \/ BlockIdStep
  \/ BlockIdList
  \/ BlockIdReturn
  \/ ListOk
  \/ ListFail
  \/ AppendOk
  \/ AppendFail
  \/ AppendLost
  \/ Backoff

\* create(client, rootBlockId, fbs) under the default retry policy
Spec == Init /\ [][Next]_vars

\* create() on the inputs whose plans need children listed
InitTerminate ==
  /\ fbs \in DeepExecInputs
  /\ \E ps \in {1, 100}, f \in {Unlimited, MaxFailures} :
       env = [pre |-> MaxPre, pageSize |-> ps, budget |-> f,
              ghosts |-> IF f = Unlimited THEN 0 ELSE MaxGhost, fails |-> 0]
  /\ remote = RemoteWith(env.pre)
  /\ InitExec

\* a step of execute(): of its loop, of blockId(), of a remote attempt or of
\* a delay
ExecuteRun ==
  \/ NextEntry
  \/ BlockIdStep
  \/ BlockIdList
  \/ BlockIdReturn
  \/ ListOk
  \/ ListFail
  \/ AppendOk
  \/ AppendFail
  \/ AppendLost
  \/ Backoff

\* create() where every remote attempt returns or fails, every timer expires
\* and every ready continuation is resumed
SpecTerminate == InitTerminate /\ [][Next]_vars /\ WF_vars(ExecuteRun)

(***************************************************************************)
(* create() against a store whose every operation fails a fixed number of  *)
(* times, each time with a transient error, and then succeeds              *)
(***************************************************************************)
\* most failures of one operation before it succeeds
MaxFails == 11

ConvergeFails == {0, 1, 2, MaxFails}

ListFailsFirst ==
  /\ hist.attempts < env.fails
  /\ ListFail
  /\ lastErr' \in TransientErrors

ListThenOk ==
  /\ hist.attempts = env.fails
  /\ ListOk

AppendFailsFirst ==
  /\ hist.attempts < env.fails
  /\ AppendFail
  /\ lastErr' \in TransientErrors

AppendThenOk ==
  /\ hist.attempts = env.fails
  /\ AppendOk

InitConverge ==
  /\ \E pre \in 0..MaxPre, ps \in {1, 100}, k \in ConvergeFails :
       /\ \/ SmallExecInput(fbs) /\ ps = 100 /\ pre = 0
          \/ fbs \in DeepExecInputs
       /\ env = [pre |-> pre, pageSize |-> ps, budget |-> Unlimited, ghosts |-> 0,
                 fails |-> k]
  /\ remote = RemoteWith(env.pre)
  /\ InitExec

\* a step of execute()
ExecuteStep ==
  \/ NextEntry
  \/ BlockIdStep
  \/ BlockIdList
  \/ BlockIdReturn
  \/ ListFailsFirst
  \/ ListThenOk
  \/ AppendFailsFirst
  \/ AppendThenOk
  \/ Backoff

NextConverge ==
  \/ Plan
  \/ ExecuteStep

\* once execute() runs, the event loop resumes every continuation that is
\* ready, every request is answered and every timer expires
SpecConverge == InitConverge /\ [][NextConverge]_vars /\ WF_vars(ExecuteStep)

(***************************************************************************)
(* toInlines, removeHeadingParagraph, mapCaption (flexible-block.ts)       *)
(***************************************************************************)
MAX_CONTENT_LENGTH == 1000

\* an optional array: undefined, or the array items
None == [defined |-> FALSE, items |-> <<>>]
Some(items) == [defined |-> TRUE, items |-> items]

NoAnnotations == [code |-> FALSE]
Code == [code |-> TRUE]

DigitChar(d) == <<"0", "1", "2", "3", "4", "5", "6", "7", "8", "9">>[d + 1]

RECURSIVE Digits(_)
\* the decimal numeral of n, as the template literal `${n}` writes it
Digits(n) == IF n < 10 THEN <<DigitChar(n)>> ELSE Append(Digits(n \div 10), DigitChar(n % 10))

\* text(content, annotations): one inline per MAX_CONTENT_LENGTH characters
text(content, annotations) ==
  [j \in 1..((Len(content) + MAX_CONTENT_LENGTH - 1) \div MAX_CONTENT_LENGTH) |->
     inline([type |-> "text",
             content |-> SubSeq(content, MAX_CONTENT_LENGTH * (j - 1) + 1,
                                Min(MAX_CONTENT_LENGTH * j, Len(content))),
             annotations |-> annotations])]

\* the kinds whose caption mapCaption rewrites
CaptionKinds == {"image", "embed", "video", "pdf", "audio", "file"}

captioned_after(anchor, caption) ==
  IF caption.defined /\ Len(caption.items) > 0
  THEN Some(caption.items \o text(<<" ">>, NoAnnotations) \o anchor)
  ELSE Some(anchor)

\* toInlines' caption handler, anchor being the anchor of the block at hand:
\* caption => (caption?.length ? [...anchor, ...text(' '), ...caption] : anchor)
captioned(anchor, caption) ==
  IF caption.defined /\ Len(caption.items) > 0
  THEN Some(anchor \o text(<<" ">>, NoAnnotations) \o caption.items)
  ELSE Some(anchor)

\* mapCaption(fb, handler) for toInlines' handler; h is
\* data => handler(data?.map(inline))?.map(i => i.data)
mapCaption(fb, anchor) ==
  LET wrap(data) == IF data.defined
                    THEN Some([j \in 1..Len(data.items) |-> inline(data.items[j])])
                    ELSE None
      unwrap(r) == IF r.defined
                   THEN Some([j \in 1..Len(r.items) |-> r.items[j].data])
                   ELSE None
      h(data) == unwrap(captioned(anchor, wrap(data)))
  IN IF fb.data.type \in CaptionKinds
     THEN [fb EXCEPT !.data.caption = h(@)]
     ELSE fb

anchorNumber_same(length) == length

\* referencedBlocks.length + 1
anchorNumber(length) == length + 1

\* text(`*${n}`, { code: true })
anchorOf(n) == text(<<"*">> \o Digits(n), Code)

\* toInlines(fbs, referencedBlocks).  When the loop reaches the j-th block of
\* fbs, referencedBlocks holds its initial elements and the j - 1 blocks
\* pushed before; the result is [ret, referencedBlocks].
toInlines(s, referencedBlocks) ==
  LET blockIdx == {k \in 1..Len(s) : s[k].type = "block"}
      length(k) == Len(referencedBlocks) + Cardinality({j \in blockIdx : j < k})
      anchor(k) == anchorOf(anchorNumber(length(k)))
      pushed(k) == mapCaption(s[k], anchor(k))
      idx == SortedSeq(blockIdx)
  IN <<Flatten(Tabulate([k \in 1..Len(s) |->
                           IF s[k].type = "block" THEN anchor(k) ELSE <<s[k]>>])),
       referencedBlocks \o [j \in 1..Len(idx) |-> pushed(idx[j])]>>

removeHeadingParagraph_keep(arg) ==
  IF ~arg.defined \/ Len(arg.items) = 0 THEN <<<<>>, <<>>>>
  ELSE IF arg.items[1].data.type # "paragraph" THEN <<<<>>, arg.items>>
  ELSE <<[j \in 1..Len(arg.items[1].data.rich_text) |->
            inline(arg.items[1].data.rich_text[j])],
         arg.items>>

\* removeHeadingParagraph(fbs?)
removeHeadingParagraph(arg) ==
  IF ~arg.defined \/ Len(arg.items) = 0 THEN <<<<>>, <<>>>>
  ELSE IF arg.items[1].data.type # "paragraph" THEN <<<<>>, arg.items>>
  ELSE <<[j \in 1..Len(arg.items[1].data.rich_text) |->
            inline(arg.items[1].data.rich_text[j])],
         Tail(arg.items)>>

(***************************************************************************)
(* Calls of the flexible-block.ts functions on their own                   *)
(***************************************************************************)
\* longest exhaustively enumerated FlexibleBlock list
MaxFlexLen == 4

FlexKinds ==
  {"inline", "paragraph", "parent", "item", "image", "image_empty", "embed"}

\* the element of a kind at position k of a list; its content spells k
FlexElement(kind, k) ==
  CASE kind = "inline" -> inline(TextData(1000 + k))
    [] kind = "paragraph" ->
         block([type |-> "paragraph", rich_text |-> <<TextData(k), TextData(k + 100)>>], <<>>)
    [] kind = "parent" ->
         block([type |-> "paragraph", rich_text |-> <<TextData(k)>>],
               MkBlocks(<<Leaf>>, <<TextData(k)>>))
    [] kind = "item" ->
         block([type |-> "bulleted_list_item", rich_text |-> <<TextData(k)>>], <<>>)
    [] kind = "image" ->
         block([type |-> "image", rich_text |-> <<TextData(k)>>, caption |-> None], <<>>)
    [] kind = "image_empty" ->
         block([type |-> "image", rich_text |-> <<TextData(k)>>, caption |-> Some(<<>>)], <<>>)
    [] kind = "embed" ->
         block([type |-> "embed", rich_text |-> <<TextData(k)>>,
                caption |-> Some(<<TextData(2000 + k), TextData(3000 + k)>>)], <<>>)

SmallFlexInput(s) ==
  \E n \in 0..MaxFlexLen :
    \E ks \in [1..n -> FlexKinds] : s = [k \in 1..n |-> FlexElement(ks[k], k)]

RunCounts == {0, 1, 99, 100, 101, 200, MaxWide}

\* a inlines, a block, b inlines
LongFlexInputs ==
  {Inlines(1000, a) \o <<FlexElement(kind, 500)>> \o Inlines(2000, b) :
     a \in RunCounts, b \in RunCounts, kind \in {"item", "embed"}}
  \cup {Inlines(1000, a) : a \in RunCounts}

\* a block of a kind with a caption, between two inlines
CaptionInputs ==
  {<<inline(TextData(1001)),
     block([type |-> kind, rich_text |-> <<TextData(2)>>, caption |-> cap], <<>>),
     inline(TextData(1003))>> :
     kind \in CaptionKinds \cup {"code", "bookmark"},
     cap \in {None, Some(<<>>), Some(<<TextData(2002)>>)}}

\* how many blocks toInlines is handed in referencedBlocks
ReferencedCounts == {0, 1, 9}

Referenced(n) == [j \in 1..n |-> FlexElement("item", 700 + j)]

Returned(fn, arg, out) == [fn |-> fn, arg |-> arg, out |-> out]

CallToBlocks ==
  /\ pc = "start"
  /\ pc' = "toBlocks"
  /\ result' = Returned("toBlocks", fbs, toBlocks(fbs))
  /\ UNCHANGED <<fbs, entry, pos, current, cursor, known, remote, env, i, lastErr,
                 thrown, hist>>

\* toBlocks applied to what toBlocks returned
CallToBlocksAgain ==
  /\ pc = "toBlocks"
  /\ pc' = "toBlocksAgain"
  /\ result' = Returned("toBlocks", result.out, toBlocks(result.out))
  /\ UNCHANGED <<fbs, entry, pos, current, cursor, known, remote, env, i, lastErr,
                 thrown, hist>>

CallToInlines ==
  /\ pc = "start"
  /\ pc' = "toInlines"
  /\ \E n \in ReferencedCounts :
       result' = Returned("toInlines", Referenced(n), toInlines(fbs, Referenced(n)))
  /\ UNCHANGED <<fbs, entry, pos, current, cursor, known, remote, env, i, lastErr,
                 thrown, hist>>

\* removeHeadingParagraph(toBlocks(fbs)), or removeHeadingParagraph(undefined)
CallRemoveHeadingParagraph ==
  /\ pc = "start"
  /\ pc' = "removeHeadingParagraph"
  /\ \E arg \in {None, Some(toBlocks(fbs))} :
       result' = Returned("removeHeadingParagraph", arg, removeHeadingParagraph(arg))
  /\ UNCHANGED <<fbs, entry, pos, current, cursor, known, remote, env, i, lastErr,
                 thrown, hist>>

InitFlex ==
  /\ SmallFlexInput(fbs) \/ fbs \in LongFlexInputs \/ fbs \in CaptionInputs
  /\ env = [pre |-> 0, pageSize |-> 100, budget |-> 0, ghosts |-> 0, fails |-> 0]
  /\ remote = EmptyRemote
  /\ InitExec

NextFlex ==
  \/ CallToBlocks
  \/ CallToBlocksAgain
  \/ CallToInlines
  \/ CallRemoveHeadingParagraph

SpecFlex == InitFlex /\ [][NextFlex]_vars

(***************************************************************************)
(* Reading a plan back                                                     *)
(***************************************************************************)
ThePlan == result.plan
Planned == pc # "start" /\ result.status = "ok"
InputBlocks == toBlocks(fbs)

\* the ceiling of each kind, as the claims state it
Ceiling(type) ==
  CASE type = "column_list" -> 0
    [] type = "table" -> 1
    [] type = "column" -> 1
    [] OTHER -> 2

MinCeiling(blocks) ==
  SetMin({Ceiling(blocks[j].data.type) : j \in 1..Len(blocks)})

RECURSIVE SumRange(_, _, _)
SumRange(f, lo, hi) ==
  IF lo > hi THEN 0
  ELSE IF lo = hi THEN f[lo]
  ELSE LET mid == (lo + hi) \div 2 IN SumRange(f, lo, mid) + SumRange(f, mid + 1, hi)

RECURSIVE TreeOf(_)
\* a Block forest as bare nodes [type, rich_text, children]
TreeOf(blocks) ==
  [j \in 1..Len(blocks) |->
     [type |-> blocks[j].data.type, rich_text |-> blocks[j].data.rich_text,
      children |-> TreeOf(blocks[j].children)]]

RECURSIVE CountNodes(_)
CountNodes(nodes) ==
  Len(nodes) + SumRange(Tabulate([j \in 1..Len(nodes) |-> CountNodes(nodes[j].children)]),
                        1, Len(nodes))

RECURSIVE Height(_)
\* the number of nesting levels of a list of payloads
Height(nodes) ==
  IF Len(nodes) = 0 THEN 0
  ELSE 1 + SetMax({Height(nodes[j].children) : j \in 1..Len(nodes)})

RECURSIVE IsNodePath(_, _)
\* path addresses a block of the forest (the empty path addresses the root)
IsNodePath(path, nodes) ==
  \/ path = <<>>
  \/ /\ path[1] + 1 \in 1..Len(nodes)
     /\ IsNodePath(Tail(path), nodes[path[1] + 1].children)

RECURSIVE ChildrenAt(_, _)
\* the children of the block the path addresses
ChildrenAt(path, nodes) ==
  IF path = <<>> THEN nodes ELSE ChildrenAt(Tail(path), nodes[path[1] + 1].children)

\* the units of all entries with this path, in plan order
UnitsAt(p, path) ==
  Flatten([e \in 1..Len(p) |-> IF p[e].path = path THEN p[e].bors ELSE <<>>])

RECURSIVE Rebuild(_, _, _)
\* the forest a plan describes: under every block, the children embedded in
\* its payload followed by the units of the entries that carry its path
Rebuild(embedded, path, p) ==
  LET all == embedded \o UnitsAt(p, path) IN
  [j \in 1..Len(all) |->
     [type |-> all[j].type, rich_text |-> all[j].rich_text,
      children |-> Rebuild(all[j].children, Append(path, j - 1), p)]]

SameData(node, other) == node.type = other.type /\ node.rich_text = other.rich_text

\* the units of entry e are, in order, a contiguous run of the children of the
\* block its path addresses
IsRunOfChildren(e, tree) ==
  LET kids == ChildrenAt(ThePlan[e].path, tree)
      bors == ThePlan[e].bors
  IN \E o \in 0..(Len(kids) - Len(bors)) :
       \A j \in 1..Len(bors) : SameData(bors[j], kids[o + j])

(***************************************************************************)
(* C1: every entry of a returned plan has at most 100 units and every      *)
(* children list embedded in a unit, at any level, at most 100 blocks.     *)
(***************************************************************************)
RECURSIVE WidthOK(_)
WidthOK(nodes) ==
  /\ Len(nodes) <= 100
  /\ \A j \in 1..Len(nodes) : WidthOK(nodes[j].children)

C1_SiblingLimit ==
  Planned => \A e \in 1..Len(ThePlan) : WidthOK(ThePlan[e].bors)

\* a plan with a full entry that holds a unit with a full embedded list, and
\* a further entry for the overflow
C1_Witness ==
  /\ Planned
  /\ Len(ThePlan) >= 3
  /\ \E e \in 1..Len(ThePlan) :
       /\ Len(ThePlan[e].bors) = 100
       /\ \E j \in 1..100 : Len(ThePlan[e].bors[j].children) = 100

(***************************************************************************)
(* C2: with an entry's units at level 0, every block embedded at level d   *)
(* has d <= ceiling of its kind, and no entry holds more than 3 levels.    *)
(***************************************************************************)
RECURSIVE DepthOK(_, _)
DepthOK(nodes, d) ==
  \A j \in 1..Len(nodes) :
    /\ d <= Ceiling(nodes[j].type)
    /\ DepthOK(nodes[j].children, d + 1)

C2_DepthLimit ==
  Planned => \A e \in 1..Len(ThePlan) :
               /\ DepthOK(ThePlan[e].bors, 0)
               /\ Height(ThePlan[e].bors) <= 3

\* a plan that had to split by depth and still fills three levels
C2_Witness ==
  /\ Planned
  /\ \E e \in 1..Len(ThePlan) : ThePlan[e].path # <<>> /\ Height(ThePlan[e].bors) = 3
  /\ Height(ThePlan[1].bors) = 3

(***************************************************************************)
(* C3: every entry's path addresses an input block P and its units are a   *)
(* contiguous run of P's children; per P, the embedded children followed   *)
(* by the units of the entries at P are P's children in input order, and   *)
(* every input block occurs exactly once in the plan.                      *)
(***************************************************************************)
C3_PlanCoversInput ==
  Planned =>
    LET tree == TreeOf(InputBlocks) IN
    /\ \A e \in 1..Len(ThePlan) :
         /\ IsNodePath(ThePlan[e].path, tree)
         /\ IsRunOfChildren(e, tree)
    /\ Rebuild(<<>>, <<>>, ThePlan) = tree
    /\ SumRange(Tabulate([e \in 1..Len(ThePlan) |-> CountNodes(ThePlan[e].bors)]),
                1, Len(ThePlan)) = CountNodes(tree)

\* a plan with two entries at one non-root path and an entry below a split block
C3_Witness ==
  /\ Planned
  /\ \E e1, e2 \in 1..Len(ThePlan) :
       e1 < e2 /\ ThePlan[e1].path = ThePlan[e2].path /\ ThePlan[e1].path # <<>>
  /\ \E e \in 1..Len(ThePlan) : Len(ThePlan[e].path) >= 2

\* plan.test.ts: the expected paths and shapes of the two tests
Summary(p) == [e \in 1..Len(p) |-> <<p[e].path, Len(p[e].bors), Height(p[e].bors)>>]

TestDepthExpected ==
  (pc # "start" /\ fbs = MkBlocks(DepthTestShape, <<>>)) =>
     /\ result.status = "ok"
     /\ Summary(ThePlan) = << <<(<<>>), 2, 3>>, <<(<<0, 1, 0>>), 2, 1>>, <<(<<0, 1, 1>>), 2, 1>>,
                              <<(<<1, 1, 0>>), 1, 3>>, <<(<<1, 1, 0, 0, 0, 0>>), 1, 2>> >>

TestLengthExpected ==
  (pc # "start" /\ fbs = MkBlocks(WideShape(150, 3, 150), <<>>)) =>
     /\ result.status = "ok"
     /\ Summary(ThePlan) = << <<(<<>>), 100, 2>>, <<(<<>>), 50, 1>>, <<(<<3>>), 50, 1>> >>
     /\ Len(ThePlan[1].bors[4].children) = 100

(***************************************************************************)
(* Where the plan puts each input block                                    *)
(***************************************************************************)
RECURSIVE PayloadAt(_, _)
\* the payload, somewhere in plan p, of the block at a non-empty input path
PayloadAt(path, p) ==
  LET emb == IF Len(path) = 1 THEN <<>> ELSE PayloadAt(Front(path), p).children
  IN (emb \o UnitsAt(p, Front(path)))[Last(path) + 1]

EmbeddedAt(path, p) == IF path = <<>> THEN <<>> ELSE PayloadAt(path, p).children

RECURSIVE CreatedBy(_, _)
\* the index of the entry whose append creates the block at a non-empty input
\* path; Len(p) + 1 when no entry does
CreatedBy(path, p) ==
  LET par == Front(path)
      emb == EmbeddedAt(par, p)
      off == Last(path) - Len(emb)
      cands == {e \in 1..Len(p) :
                  /\ p[e].path = par
                  /\ Len(UnitsAt(SubSeq(p, 1, e - 1), par)) <= off
                  /\ off < Len(UnitsAt(SubSeq(p, 1, e), par))}
  IN IF off < 0 THEN CreatedBy(par, p)
     ELSE IF cands = {} THEN Len(p) + 1
     ELSE CHOOSE e \in cands : TRUE

\* the entries that carry the overflow of the block at path: all the entries
\* with that path, but for the root not the first entry, which plays the part
\* of the root's own payload
OverflowIdx(p, path) ==
  {e \in 1..Len(p) : p[e].path = path /\ (path # <<>> \/ e > 1)}

RootEmbedded(p) ==
  IF Len(p) > 0 /\ p[1].path = <<>> THEN p[1].bors ELSE <<>>

RECURSIVE Groups(_, _, _, _, _)
\* every non-empty sibling list of the input with what the plan does with it:
\* blocks (the siblings), embedded (those embedded with the parent), units
\* (those emitted in overflow entries ov), path (the parent's index path) and
\* lvl (the nesting level the siblings would have if embedded with the parent)
Groups(blocks, embedded, path, lvl, p) ==
  IF Len(blocks) = 0 THEN <<>>
  ELSE
    LET ov == OverflowIdx(p, path)
        units == Flatten([e \in 1..Len(p) |-> IF e \in ov THEN p[e].bors ELSE <<>>])
        all == embedded \o units
        below(j) == IF j > Len(all) THEN <<>>
                    ELSE Groups(blocks[j].children, all[j].children, Append(path, j - 1),
                                IF j <= Len(embedded) THEN lvl + 1 ELSE 1, p)
    IN <<[blocks |-> blocks, embedded |-> embedded, units |-> units, ov |-> ov,
          path |-> path, lvl |-> lvl]>>
       \o Flatten(Tabulate([j \in 1..Len(blocks) |-> below(j)]))

PlanGroups == Groups(InputBlocks, RootEmbedded(ThePlan), <<>>, 0, ThePlan)

\* the payloads are, in order, the blocks from index from + 1 on
MatchesFrom(nodes, blocks, from) ==
  \A j \in 1..Len(nodes) :
    from + j <= Len(blocks) /\ SameData(nodes[j], blocks[from + j].data)

(***************************************************************************)
(* C4: a returned plan is ordered by non-decreasing path length, and the   *)
(* block an entry's path addresses, and each of its ancestors, is created  *)
(* by an entry strictly earlier in the plan.                               *)
(***************************************************************************)
C4_AncestorsFirst ==
  Planned =>
    /\ \A e \in 1..(Len(ThePlan) - 1) : Len(ThePlan[e].path) <= Len(ThePlan[e + 1].path)
    /\ \A e \in 1..Len(ThePlan) :
         \A n \in 1..Len(ThePlan[e].path) :
           CreatedBy(SubSeq(ThePlan[e].path, 1, n), ThePlan) < e

\* a plan whose overflow entries lie at two different depths below the root
C4_Witness ==
  /\ Planned
  /\ \E e1, e2 \in 1..Len(ThePlan) :
       0 < Len(ThePlan[e1].path) /\ Len(ThePlan[e1].path) < Len(ThePlan[e2].path)
  /\ \E e \in 1..Len(ThePlan) :
       Len(ThePlan[e].path) > 0 /\ CreatedBy(ThePlan[e].path, ThePlan) > 1

(***************************************************************************)
(* C6: a parent whose n children are allowed at their nesting level has    *)
(* its first min(n, 100) children embedded with it (the root: in the first *)
(* entry) and the others, in order, in consecutive entries of at most 100  *)
(* units that carry the parent's index path.                               *)
(***************************************************************************)
IsInterval(S) == \A a \in S : \A b \in S : \A c \in a..b : c \in S

C6_WidthSplit ==
  Planned =>
    /\ LET gs == PlanGroups IN
       \A g \in 1..Len(gs) :
         LET G == gs[g]
             n == Len(G.blocks)
         IN MinCeiling(G.blocks) >= G.lvl =>
              /\ Len(G.embedded) = Min(n, 100)
              /\ MatchesFrom(G.embedded, G.blocks, 0)
              /\ Len(G.units) = n - Min(n, 100)
              /\ MatchesFrom(G.units, G.blocks, 100)
              /\ IsInterval(G.ov)
              /\ \A e \in G.ov : ThePlan[e].path = G.path /\ Len(ThePlan[e].bors) \in 1..100
    /\ fbs = MkBlocks(Rep(150, Leaf), <<>>) =>
         [e \in 1..Len(ThePlan) |-> <<ThePlan[e].path, Len(ThePlan[e].bors)>>]
           = << <<(<<>>), 100>>, <<(<<>>), 50>> >>
    /\ fbs = MkBlocks(WideShape(150, 3, 150), <<>>) =>
         /\ [e \in 1..Len(ThePlan) |-> <<ThePlan[e].path, Len(ThePlan[e].bors)>>]
              = << <<(<<>>), 100>>, <<(<<>>), 50>>, <<(<<3>>), 50>> >>
         /\ Len(ThePlan[1].bors[4].children) = 100

\* a parent below the root whose overflow takes two entries
C6_Witness ==
  /\ Planned
  /\ LET gs == PlanGroups IN
     \E g \in 1..Len(gs) :
       LET G == gs[g] IN
       /\ G.path # <<>>
       /\ MinCeiling(G.blocks) >= G.lvl
       /\ Len(G.embedded) = 100
       /\ Cardinality(G.ov) = 2

(***************************************************************************)
(* C7: siblings whose smallest ceiling is below the level they would have  *)
(* are not embedded: all of them are units of entries at their parent's    *)
(* index path, each unit the top of a payload of at most three levels; a   *)
(* chain nested n deep yields entries at path lengths 0, 3, 6, ... that    *)
(* hold three levels each, the last one the rest.                          *)
(***************************************************************************)
Zeros(n) == [j \in 1..n |-> 0]

C7_DepthSplit ==
  Planned =>
    /\ LET gs == PlanGroups IN
       \A g \in 1..Len(gs) :
         LET G == gs[g] IN
         MinCeiling(G.blocks) < G.lvl =>
           /\ Len(G.embedded) = 0
           /\ Len(G.units) = Len(G.blocks)
           /\ MatchesFrom(G.units, G.blocks, 0)
           /\ \A e \in G.ov : ThePlan[e].path = G.path
           /\ \A j \in 1..Len(G.units) : Height(<<G.units[j]>>) <= 3
    /\ \A n \in 1..MaxChain :
         fbs = MkBlocks(ChainShape(n), <<>>) =>
           Summary(ThePlan) =
             [e \in 1..((n + 2) \div 3) |-> <<Zeros(3 * (e - 1)), 1, Min(3, n - 3 * (e - 1))>>]

\* the chain nested 8 deep, planned as entries at path lengths 0, 3 and 6
C7_Witness ==
  /\ Planned
  /\ fbs = MkBlocks(ChainShape(8), <<>>)
  /\ [e \in 1..Len(ThePlan) |-> Len(ThePlan[e].path)] = <<0, 3, 6>>
  /\ LET gs == PlanGroups IN
     \E g \in 1..Len(gs) : MinCeiling(gs[g].blocks) < gs[g].lvl

(***************************************************************************)
(* What create() leaves in the remote store                                *)
(***************************************************************************)
\* create() has returned
Completed == pc = "done"

\* create() has thrown out of execute(), after a plan was made
ExecFailed == result.status = "ok" /\ thrown # NoError

\* the children the root block has that it did not have before create()
Added == SubSeq(remote.children, env.pre + 1, Len(remote.children))

\* the children the root block had before create(), as they are now
Kept == SubSeq(remote.children, 1, Min(env.pre, Len(remote.children)))

\* C5: once create() has completed, no failed attempt having been applied by
\* the store, the blocks added under the root come after the children the root
\* already had, which are unchanged, and are exactly the forest toBlocks(fbs):
\* same blocks, same sibling order, same nesting at every level.
C5_CreatedTree ==
  (Completed /\ hist.lost = 0) =>
    /\ Kept = RemoteWith(env.pre).children
    /\ Added = TreeOf(InputBlocks)

C5_Witness ==
  /\ Completed
  /\ hist.lost = 0
  /\ env.pre > 0
  /\ env.budget \in 0..(MaxFailures - 1)
  /\ Len(ThePlan) >= 3
  /\ \E e \in 1..Len(ThePlan) : Len(ThePlan[e].path) >= 1
  /\ \E e \in 2..Len(ThePlan) : Len(ThePlan[e].path) = 0
  /\ Added = TreeOf(InputBlocks)

RECURSIVE Extends(_, _)
\* every block of the old store is in the new one, at the same place with the
\* same content
Extends(old, new) ==
  /\ SameData(old, new)
  /\ Len(old.children) <= Len(new.children)
  /\ \A j \in 1..Len(old.children) : Extends(old.children[j], new.children[j])

\* the store after exactly the first k entries of the plan were applied
StoreAfter(k) ==
  [RemoteWith(env.pre) EXCEPT
     !.children = @ \o Rebuild(<<>>, <<>>, SubSeq(ThePlan, 1, k))]

\* C8: when create() fails during execution, the entries whose append
\* succeeded are a strict prefix of the plan, in plan order, and (no failed
\* attempt having been applied by the store) the store holds exactly what they
\* created; no step ever removes or changes a block of the store, and no step
\* at all is taken after the failure.
C8_NoRollback ==
  /\ [](ExecFailed =>
          /\ hist.applied = [k \in 1..Len(hist.applied) |-> k]
          /\ Len(hist.applied) < Len(ThePlan)
          /\ hist.lost = 0 => remote = StoreAfter(Len(hist.applied)))
  /\ [][/\ ~ExecFailed
        /\ Extends(remote, remote')
        /\ hist'.applied \in {hist.applied, Append(hist.applied, entry)}]_vars

C8_Witness ==
  /\ ExecFailed
  /\ pc = "thrown"
  /\ Len(hist.applied) >= 2
  /\ hist.op = "append"
  /\ thrown \in PermanentErrors
  /\ remote = StoreAfter(Len(hist.applied))
  /\ CountNodes(remote.children) > env.pre + 100

\* C9: no remote operation is attempted more than DEFAULT_RETRY_COUNT + 1 = 13
\* times; an operation that failed 13 times, each time with a transient error,
\* has failed for good, after 12 delays, and the error thrown to the caller is
\* the one of the 13th attempt; a transient error is thrown only then.
C9_RetryBound ==
  /\ hist.attempts <= DEFAULT_RETRY_COUNT + 1
  /\ (hist.attempts = DEFAULT_RETRY_COUNT + 1 /\ lastErr \in TransientErrors) =>
       /\ pc = "thrown"
       /\ thrown = lastErr
       /\ Len(hist.delays) = DEFAULT_RETRY_COUNT
  /\ (ExecFailed /\ thrown \in TransientErrors) =>
       /\ hist.attempts = DEFAULT_RETRY_COUNT + 1
       /\ thrown = lastErr

C9_Witness ==
  /\ pc = "thrown"
  /\ hist.attempts = DEFAULT_RETRY_COUNT + 1
  /\ thrown = Err("APIResponseError", "rate_limited")
  /\ hist.op = "append"
  /\ Len(hist.applied) >= 1

\* C10: an attempt that fails with an error that is not transient ends
\* create() at once with that error: no delay follows it and no further
\* attempt is made, so an operation whose first attempt fails this way is
\* attempted exactly once and never backs off.
C10_NoRetryOfPermanent ==
  lastErr \in PermanentErrors =>
    /\ pc = "thrown"
    /\ thrown = lastErr
    /\ Len(hist.delays) = hist.attempts - 1
    /\ hist.delays = <<>> => hist.attempts = 1

C10_Witness ==
  /\ pc = "thrown"
  /\ thrown = Err("APIResponseError", "validation_error")
  /\ hist.attempts = 1
  /\ hist.delays = <<>>
  /\ hist.op = "list"
  /\ Len(hist.applied) >= 1

(***************************************************************************)
(* Retry convergence                                                       *)
(***************************************************************************)
\* the delays taken before attempt k + 1
DelaysBefore(k) == [j \in 1..k |-> 1000 * 2^(j - 1)]

\* C11: when every remote operation fails k times with a transient error,
\* k below the retry bound, and then succeeds, nothing is ever thrown, every
\* operation returns from its attempt k + 1 (after exactly k delays and k + 1
\* attempts), and create() eventually completes with every plan entry
\* applied, once each and in plan order.
C11_RetryConverges ==
  /\ [](Planned => thrown = NoError)
  /\ []((pc = "loop" /\ entry >= 1) =>
          /\ i = env.fails
          /\ hist.attempts = env.fails + 1
          /\ hist.delays = DelaysBefore(env.fails))
  /\ [](Planned => <>(/\ Completed
                      /\ hist.applied = [k \in 1..Len(ThePlan) |-> k]
                      /\ Added = TreeOf(InputBlocks)))

C11_Witness ==
  /\ Completed
  /\ env.fails = MaxFails
  /\ hist.attempts = MaxFails + 1
  /\ Len(ThePlan) >= 3
  /\ \E e \in 1..Len(ThePlan) : Len(ThePlan[e].path) >= 2
  /\ Len(hist.applied) = Len(ThePlan)

(***************************************************************************)
(* Structural errors                                                       *)
(***************************************************************************)
\* plan(fbs) has been evaluated
PlanCalled == pc # "start"

\* plan() ended in the error handler, with nothing sent to the store
ThrownByPolicy ==
  /\ result.status = "onError"
  /\ pc = "thrown"
  /\ thrown = Err("Error", result.msg)
  /\ hist.op = "none"
  /\ hist.attempts = 0
  /\ remote = RemoteWith(env.pre)

RECURSIVE HasParentOfKind(_, _)
\* some block of the forest has a kind in kinds and a non-empty child list
HasParentOfKind(blocks, kinds) ==
  \E j \in 1..Len(blocks) :
    \/ blocks[j].data.type \in kinds /\ Len(blocks[j].children) > 0
    \/ HasParentOfKind(blocks[j].children, kinds)

RECURSIVE HasChildNotOfKind(_, _, _)
\* some block of kind parent has a child whose kind is not child
HasChildNotOfKind(blocks, parent, child) ==
  \E j \in 1..Len(blocks) :
    \/ /\ blocks[j].data.type = parent
       /\ \E c \in 1..Len(blocks[j].children) : blocks[j].children[c].data.type # child
    \/ HasChildNotOfKind(blocks[j].children, parent, child)

\* C12: when some block of a kind that forbids children has a non-empty child
\* list, plan() ends in the error handler (it returns no plan that drops the
\* children) and create() throws before any remote operation.
C12_ChildlessRejected ==
  (PlanCalled /\ HasParentOfKind(InputBlocks, ChildlessKinds)) => ThrownByPolicy

\* C13: when a table has a child that is not a table_row, or a column_list a
\* child that is not a column, plan() ends in the error handler and returns no
\* plan.
C13_WrongChildRejected ==
  (PlanCalled /\ (\/ HasChildNotOfKind(InputBlocks, "table", "table_row")
                  \/ HasChildNotOfKind(InputBlocks, "column_list", "column")))
    => ThrownByPolicy

(***************************************************************************)
(* Column lists                                                            *)
(***************************************************************************)
RECURSIVE BlockAt(_, _)
\* the block at a non-empty index path of a forest
BlockAt(path, blocks) ==
  IF Len(path) = 1 THEN blocks[path[1] + 1]
  ELSE BlockAt(Tail(path), blocks[path[1] + 1].children)

RECURSIVE EmbedsUnder(_, _)
\* some payload of this kind carries embedded children
EmbedsUnder(nodes, kind) ==
  \E j \in 1..Len(nodes) :
    \/ nodes[j].type = kind /\ Len(nodes[j].children) > 0
    \/ EmbedsUnder(nodes[j].children, kind)

RECURSIVE EmptyOfKind(_, _)
\* some payload of this kind carries no embedded child
EmptyOfKind(nodes, kind) ==
  \E j \in 1..Len(nodes) :
    \/ nodes[j].type = kind /\ Len(nodes[j].children) = 0
    \/ EmptyOfKind(nodes[j].children, kind)

\* the sibling lists of the input whose parent is of this kind
GroupsUnder(gs, kind) ==
  {g \in 1..Len(gs) :
     gs[g].path # <<>> /\ BlockAt(gs[g].path, InputBlocks).data.type = kind}

\* C14 as stated: no plan entry holds a column_list together with children of
\* that column_list.
C14_ColumnsApart ==
  Planned => \A e \in 1..Len(ThePlan) : ~EmbedsUnder(ThePlan[e].bors, "column_list")

\* C14, amended: in every plan returned, a column_list is a top-level unit of
\* its entry and its first min(n, 100) children (n >= 1), all of them
\* columns, are embedded with it in that entry; only children past the 100th
\* are emitted in separate entries.
C14_ColumnsEmbedded ==
  Planned =>
    LET gs == PlanGroups IN
    /\ \A e \in 1..Len(ThePlan) : ~EmptyOfKind(ThePlan[e].bors, "column_list")
    /\ \A g \in GroupsUnder(gs, "column_list") :
         /\ gs[g].lvl = 1
         /\ Len(gs[g].embedded) = Min(Len(gs[g].blocks), MAX_BLOCKS_LENGTH)
         /\ Len(gs[g].units) = Len(gs[g].blocks) - Len(gs[g].embedded)
         /\ \A j \in 1..Len(gs[g].embedded) : gs[g].embedded[j].type = "column"

C14_Witness ==
  /\ Planned
  /\ LET gs == PlanGroups IN
     \E g \in GroupsUnder(gs, "column_list") :
       /\ Len(gs[g].blocks) = MAX_BLOCKS_LENGTH + 1
       /\ Len(gs[g].embedded) = MAX_BLOCKS_LENGTH
       /\ Len(gs[g].units) = 1

(***************************************************************************)
(* Forests that fit in one call                                            *)
(***************************************************************************)
RECURSIVE FitsFrom(_, _)
\* at most 100 siblings everywhere, and every block at a depth its kind allows
FitsFrom(blocks, d) ==
  /\ Len(blocks) <= MAX_BLOCKS_LENGTH
  /\ \A j \in 1..Len(blocks) :
       /\ d <= maximumDepthToExist(blocks[j])
       /\ FitsFrom(blocks[j].children, d + 1)

Fits(blocks) == FitsFrom(blocks, 0)

RECURSIVE WellFormed(_)
\* no block without a kind, no child under a kind that forbids children, and
\* every table (column_list) with at least one child, all table_rows (columns)
WellFormed(blocks) ==
  \A j \in 1..Len(blocks) :
    LET t == blocks[j].data.type
        cs == blocks[j].children
    IN /\ t # NoType
       /\ t \in ChildlessKinds => Len(cs) = 0
       /\ t = "table" => Len(cs) > 0 /\ \A c \in 1..Len(cs) : cs[c].data.type = "table_row"
       /\ t = "column_list" => Len(cs) > 0 /\ \A c \in 1..Len(cs) : cs[c].data.type = "column"
       /\ WellFormed(cs)

OneEntry == ThePlan = <<[path |-> <<>>, bors |-> TreeOf(InputBlocks)]>>

\* C15 as stated: for a forest that fits (at most 100 top-level blocks, at
\* most 100 children per block, every block within its kind's depth ceiling)
\* plan() returns exactly one entry, with path [] and the whole forest in it.
C15_FitsInOne ==
  (PlanCalled /\ Fits(InputBlocks)) => (result.status = "ok" /\ OneEntry)

\* C15, amended: for a forest that fits, plan() returns the empty plan when
\* the forest is empty; exactly one entry, with path [] and the whole forest
\* embedded, when the forest is non-empty and structurally valid; and throws,
\* returning no plan, when it is not structurally valid.
C15_FitsInOneOrNone ==
  (PlanCalled /\ Fits(InputBlocks)) =>
    IF InputBlocks = <<>> THEN result.status = "ok" /\ ThePlan = <<>>
    ELSE IF WellFormed(InputBlocks) THEN result.status = "ok" /\ OneEntry
    ELSE result.status \in {"onError", "TypeError"} /\ ThePlan = <<>>

C15_Witness ==
  /\ Planned
  /\ Fits(InputBlocks)
  /\ Len(InputBlocks) = MAX_BLOCKS_LENGTH
  /\ \E j \in 1..Len(InputBlocks) : Len(InputBlocks[j].children) = MAX_BLOCKS_LENGTH
  /\ OneEntry

(***************************************************************************)
(* toBlocks                                                                *)
(***************************************************************************)
Range(f) == {f[k] : k \in 1..Len(f)}

\* the paragraphs of a returned list that are not blocks of the list given
Synthetic(given, out) == {k \in 1..Len(out) : out[k] \notin Range(given)}

\* a returned list with every synthetic paragraph replaced by its inlines
Expand(given, out) ==
  LET syn == Synthetic(given, out) IN
  Flatten(Tabulate([k \in 1..Len(out) |->
                      IF k \in syn
                      THEN [j \in 1..Len(out[k].data.rich_text) |->
                              inline(out[k].data.rich_text[j])]
                      ELSE <<out[k]>>]))

\* the lengths of the maximal runs of consecutive inlines of a list
RunLengths(given) ==
  LET starts == {k \in 1..Len(given) :
                   given[k].type = "inline" /\ (k = 1 \/ given[k - 1].type = "block")}
      stop(k) == SetMin({j \in k..Len(given) : given[j].type = "block"}
                        \cup {Len(given) + 1})
      ss == SortedSeq(starts)
  IN [r \in 1..Len(ss) |-> stop(ss[r]) - ss[r]]

Ceil100(n) == (n + 99) \div 100

\* C16: toBlocks keeps every given Block, unchanged and in order, and puts in
\* place of each maximal run of n >= 1 inlines ceil(n / 100) paragraphs that
\* hold the run's inlines in order, at most 100 each (one paragraph when
\* n <= 100); the empty list gives the empty list.
C16_ToBlocks ==
  pc = "toBlocks" =>
    LET given == result.arg
        out == result.out
        syn == Synthetic(given, out)
        runs == RunLengths(given)
    IN /\ Expand(given, out) = given
       /\ \A k \in 1..Len(out) : out[k].type = "block"
       /\ \A k \in syn :
            /\ out[k].data.type = "paragraph"
            /\ out[k].children = <<>>
            /\ Len(out[k].data.rich_text) \in 1..100
            /\ (k + 1) \in syn => Len(out[k].data.rich_text) = 100
       /\ Cardinality(syn) = SumRange([r \in 1..Len(runs) |-> Ceil100(runs[r])], 1, Len(runs))
       /\ (\A r \in 1..Len(runs) : runs[r] <= 100) => Cardinality(syn) = Len(runs)
       /\ given = <<>> => out = <<>>

C16_Witness ==
  /\ pc = "toBlocks"
  /\ RunLengths(result.arg) = <<101, MaxWide>>
  /\ Len(result.out) = 1 + 2 + Ceil100(MaxWide)
  /\ Len(result.out[2].data.rich_text) = 1

OnlyBlocks(given) == \A k \in 1..Len(given) : given[k].type = "block"

\* C17: toBlocks returns a list that holds only Blocks as it is, the same
\* blocks in the same order; so toBlocks applied to what toBlocks returned
\* returns it again.
C17_ToBlocksIdempotent ==
  /\ (pc = "toBlocks" /\ OnlyBlocks(result.arg)) => result.out = result.arg
  /\ pc = "toBlocksAgain" => (OnlyBlocks(result.arg) /\ result.out = result.arg)

C17_Witness ==
  /\ pc = "toBlocksAgain"
  /\ ~OnlyBlocks(fbs)
  /\ Len(result.arg) >= 3
  /\ Synthetic(fbs, result.arg) # {}
  /\ Synthetic(fbs, result.arg) # 1..Len(result.arg)
  /\ result.out = result.arg

(***************************************************************************)
(* toInlines                                                               *)
(***************************************************************************)
DigitValue(c) == CHOOSE d \in 0..9 : DigitChar(d) = c

RECURSIVE Numeral(_)
\* the number a decimal numeral denotes
Numeral(ds) ==
  IF Len(ds) = 1 THEN DigitValue(ds[1])
  ELSE 10 * Numeral(SubSeq(ds, 1, Len(ds) - 1)) + DigitValue(ds[Len(ds)])

\* the inline is the anchor token '*k', code-annotated
IsAnchor(x, k) ==
  /\ x.type = "inline"
  /\ x.data.type = "text"
  /\ x.data.annotations = [code |-> TRUE]
  /\ Len(x.data.content) >= 2
  /\ x.data.content[1] = "*"
  /\ \A c \in 2..Len(x.data.content) : x.data.content[c] \in Range(<<"0", "1", "2", "3", "4", "5", "6", "7", "8", "9">>)
  /\ x.data.content[2] # "0"
  /\ Numeral(Tail(x.data.content)) = k

\* the positions of the Blocks of a list, in order
BlockPositions(given) == SortedSeq({k \in 1..Len(given) : given[k].type = "block"})

\* a block but for its caption
Uncaptioned(b) == [type |-> b.data.type, rich_text |-> b.data.rich_text, children |-> b.children]

\* C18: in what toInlines(seq, out) returns, the inlines of seq stand unchanged
\* and in order, the j-th Block of seq is replaced by the code-annotated
\* anchor '*k' with k = (length of out at the call) + j, so the anchors
\* increase strictly and none is used twice, and the block list is out
\* followed by the displaced blocks, the block of '*k' at position k - 1
\* (counting from 0).
C18_Anchors ==
  pc = "toInlines" =>
    LET n0 == Len(result.arg)
        inl == result.out[1]
        blks == result.out[2]
        bp == BlockPositions(fbs)
    IN /\ Len(inl) = Len(fbs)
       /\ \A k \in 1..Len(fbs) : fbs[k].type = "inline" => inl[k] = fbs[k]
       /\ \A j \in 1..Len(bp) : IsAnchor(inl[bp[j]], n0 + j)
       /\ \A j \in 1..Len(bp), h \in 1..Len(bp) :
            j < h => Numeral(Tail(inl[bp[j]].data.content))
                       < Numeral(Tail(inl[bp[h]].data.content))
       /\ Len(blks) = n0 + Len(bp)
       /\ SubSeq(blks, 1, n0) = result.arg
       /\ \A j \in 1..Len(bp) : Uncaptioned(blks[n0 + j]) = Uncaptioned(fbs[bp[j]])

C18_Witness ==
  /\ pc = "toInlines"
  /\ Len(result.arg) = 9
  /\ Len(fbs) = 4
  /\ BlockPositions(fbs) = <<2, 4>>
  /\ result.out[1][2].data.content = <<"*", "1", "0">>
  /\ result.out[1][4].data.content = <<"*", "1", "1">>
  /\ Len(result.out[2]) = 11

HasCaption(b) == "caption" \in DOMAIN b.data

Space == [type |-> "text", content |-> <<" ">>, annotations |-> [code |-> FALSE]]

\* the caption the claim gives the copy of a displaced block: the anchor
\* alone, or the anchor, one space and the caption the block had
AnchoredCaption(anchor, b) ==
  IF HasCaption(b) /\ b.data.caption.defined /\ Len(b.data.caption.items) > 0
  THEN Some(<<anchor.data, Space>> \o b.data.caption.items)
  ELSE Some(<<anchor.data>>)

\* C19 as stated: the copy of every displaced Block carries a caption that
\* begins with the block's anchor: the anchor alone when the block had no
\* caption, else the anchor, a space and the original caption.
C19_EveryCopyAnchored ==
  pc = "toInlines" =>
    LET n0 == Len(result.arg)
        bp == BlockPositions(fbs)
    IN \A j \in 1..Len(bp) :
         LET copy == result.out[2][n0 + j] IN
         /\ HasCaption(copy)
         /\ copy.data.caption = AnchoredCaption(result.out[1][bp[j]], fbs[bp[j]])

\* C19, amended: the copy of a displaced image, embed, video, pdf, audio or
\* file block is the block with its caption replaced by the anchor alone
\* (when the block had no caption or an empty one) or by the anchor, a single
\* space and the original caption; a displaced block of any other kind is
\* appended exactly as it was, without the anchor.
C19_CaptionKindsAnchored ==
  pc = "toInlines" =>
    LET n0 == Len(result.arg)
        bp == BlockPositions(fbs)
    IN \A j \in 1..Len(bp) :
         LET copy == result.out[2][n0 + j]
             orig == fbs[bp[j]]
         IN IF orig.data.type \in {"image", "embed", "video", "pdf", "audio", "file"}
            THEN copy = [orig EXCEPT
                           !.data.caption = AnchoredCaption(result.out[1][bp[j]], orig)]
            ELSE copy = orig

C19_Witness ==
  /\ pc = "toInlines"
  /\ Len(result.arg) = 1
  /\ BlockPositions(fbs) = <<1, 2, 4>>
  /\ fbs[1].data.type = "embed"
  /\ fbs[2].data.type = "image"
  /\ fbs[4].data.type = "bulleted_list_item"
  /\ Len(result.out[2][2].data.caption.items) = 4
  /\ Len(result.out[2][3].data.caption.items) = 1
  /\ result.out[2][4] = fbs[4]

(***************************************************************************)
(* removeHeadingParagraph                                                  *)
(***************************************************************************)
\* C20: when the first block is a paragraph, removeHeadingParagraph returns
\* that paragraph's inline content and the remaining blocks in order;
\* otherwise, also for an empty or missing list, it returns an empty caption
\* and all the blocks, unchanged and in order.
C20_HeadingParagraph ==
  pc = "removeHeadingParagraph" =>
    LET blocks == result.arg.items
        caption == result.out[1]
        rest == result.out[2]
    IN IF result.arg.defined /\ Len(blocks) > 0 /\ blocks[1].data.type = "paragraph"
       THEN /\ Len(caption) = Len(blocks[1].data.rich_text)
            /\ \A j \in 1..Len(caption) :
                 caption[j] = [type |-> "inline", data |-> blocks[1].data.rich_text[j]]
            /\ Len(rest) = Len(blocks) - 1
            /\ \A k \in 1..Len(rest) : rest[k] = blocks[k + 1]
       ELSE /\ caption = <<>>
            /\ Len(rest) = Len(blocks)
            /\ \A k \in 1..Len(rest) : rest[k] = blocks[k]

\* the documented use: inlines first, then blocks
C20_Witness ==
  /\ pc = "removeHeadingParagraph"
  /\ Len(fbs) = 4
  /\ fbs[1].type = "inline" /\ fbs[2].type = "inline"
  /\ fbs[3].type = "block" /\ fbs[4].type = "block"
  /\ result.arg.defined
  /\ result.out[1] = <<fbs[1], fbs[2]>>
  /\ result.out[2] = <<fbs[3], fbs[4]>>

(***************************************************************************)
(* migrator-example: PageIssuer (page-issuer.mts)                          *)
(*                                                                         *)
(* Concurrent issue() calls against one Notion workspace and one database. *)
(* The variables stand for: fbs, the path given to each call; pc, where    *)
(* each call stands; current, the locals of each call (pageId, name index, *)
(* parentPageId, newPageId, and the ids it resolved); known, the LRU cache *)
(* of each PageIssuer; remote, the live Notion pages, the NotionPage rows  *)
(* ; env, the failures the services may still         *)
(* produce; hist, which call created which page.                           *)
(***************************************************************************)
\* number of concurrent issue() calls
MaxCalls == 2
\* most failures of the database or of Notion in a run of issue() calls
MaxIssueFailures == 1

Calls == 1..MaxCalls

\* the PageIssuer (and so the cache) a call runs on: calls 1 and 2 on one
\* process, the calls after them on another
IssuerOf(c) == IF c <= 2 THEN 1 ELSE 2

\* the id Notion gives the n-th page that call c creates
FreshPageId(c, n) == 10 * c + n

Issuers == {IssuerOf(c) : c \in Calls}

RootPageId == 0

IssuePaths == {<<"a">>, <<"a", "b">>}

\* const cacheKey = `${parentPageId}:${name}`
cacheKey(parentPageId, name) == <<parentPageId, name>>

\* the NotionPage rows where { parentPageId, name }
RowsWhere(parentPageId, name) ==
  {r \in remote.rows : r.parentPageId = parentPageId /\ r.name = name}

\* model NotionPage: pageId @id, @@unique([parentPageId, name])
Conflicts(row) ==
  \E r \in remote.rows :
    \/ r.pageId = row.pageId
    \/ r.parentPageId = row.parentPageId /\ r.name = row.name

NameOf(c) == fbs[c][current[c].k]

\* pageId = ...; break / continue; this.cache.set(cacheKey, pageId): the
\* name is resolved and the for loop goes to the next name
Resolved(c, pageId) ==
  /\ current' = [current EXCEPT ![c] = [@ EXCEPT !.pageId = pageId, !.k = @ + 1,
                                                !.newPageId = RootPageId,
                                                !.trail = Append(@, pageId)]]
  /\ pc' = [pc EXCEPT ![c] = "cache"]

InitIssue ==
  /\ fbs \in [Calls -> IssuePaths]
  /\ pc = [c \in Calls |-> "cache"]
  /\ current = [c \in Calls |-> [pageId |-> RootPageId, k |-> 1, parentPageId |-> RootPageId,
                                 newPageId |-> RootPageId, trail |-> <<>>]]
  /\ known = [p \in Issuers |-> {}]
  /\ remote = [pages |-> {}, rows |-> {}]
  /\ env = [budget |-> MaxIssueFailures]
  /\ hist = [made |-> {}]
  /\ result = NoPlan
  /\ entry = 0
  /\ pos = 0
  /\ cursor = 0
  /\ i = 0
  /\ lastErr = NoError
  /\ thrown = NoError

\* for (const name of path): the cache is asked; return pageId at the end
IssueNext(c) ==
  /\ pc[c] = "cache"
  /\ IF current[c].k > Len(fbs[c])
     THEN /\ pc' = [pc EXCEPT ![c] = "returned"]
          /\ UNCHANGED current
     ELSE LET key == cacheKey(current[c].pageId, NameOf(c))
              cache == known[IssuerOf(c)]
          IN IF \E e \in cache : e.key = key
             THEN Resolved(c, (CHOOSE e \in cache : e.key = key).pageId)
             ELSE /\ current' = [current EXCEPT ![c].parentPageId = current[c].pageId]
                  /\ pc' = [pc EXCEPT ![c] = "find"]
  /\ UNCHANGED <<fbs, result, entry, pos, cursor, known, remote, env, i, lastErr,
                 thrown, hist>>

\* this.cache.set(cacheKey, pageId)
cacheSet(cache, key, pageId) ==
  {e \in cache : e.key # key} \cup {[key |-> key, pageId |-> pageId]}

\* prisma.notionPage.findFirst returns: the existing page, or none
IssueFind(c) ==
  /\ pc[c] = "find"
  /\ LET found == RowsWhere(current[c].parentPageId, NameOf(c)) IN
     IF found # {}
     THEN LET existingPage == CHOOSE r \in found : TRUE IN
          /\ Resolved(c, existingPage.pageId)
          /\ known' = [known EXCEPT ![IssuerOf(c)] =
                         cacheSet(@, cacheKey(current[c].parentPageId, NameOf(c)),
                                  existingPage.pageId)]
     ELSE /\ pc' = [pc EXCEPT ![c] = "createPage"]
          /\ UNCHANGED <<current, known>>
  /\ UNCHANGED <<fbs, result, entry, pos, cursor, remote, env, i, lastErr, thrown, hist>>

\* findFirst or #createPage throws: catch, newPageId undefined, continue
IssueRetry(c) ==
  /\ pc[c] \in {"find", "createPage"}
  /\ env.budget > 0
  /\ env' = [env EXCEPT !.budget = @ - 1]
  /\ pc' = [pc EXCEPT ![c] = "find"]
  /\ UNCHANGED <<fbs, result, entry, pos, current, cursor, known, remote, i, lastErr,
                 thrown, hist>>

\* newPageId = await this.#createPage(parentPageId, name)
IssueCreatePage(c) ==
  /\ pc[c] = "createPage"
  /\ LET id == FreshPageId(c, Cardinality({m \in hist.made : m.call = c}) + 1) IN
     /\ remote' = [remote EXCEPT !.pages = @ \cup {id}]
     /\ hist' = [hist EXCEPT !.made = @ \cup {[page |-> id, call |-> c]}]
     /\ current' = [current EXCEPT ![c].newPageId = id]
  /\ pc' = [pc EXCEPT ![c] = "write"]
  /\ UNCHANGED <<fbs, result, entry, pos, cursor, known, env, i, lastErr, thrown>>

\* the write lost and the page created for it left alone
IssueWrite_keep(c) ==
  /\ pc[c] = "write"
  /\ LET row == [pageId |-> current[c].newPageId, name |-> NameOf(c),
                 parentPageId |-> current[c].parentPageId]
     IN IF Conflicts(row)
        THEN /\ pc' = [pc EXCEPT ![c] = "find"]
             /\ UNCHANGED <<current, known, remote>>
        ELSE /\ remote' = [remote EXCEPT !.rows = @ \cup {row}]
             /\ Resolved(c, row.pageId)
             /\ known' = [known EXCEPT ![IssuerOf(c)] =
                            cacheSet(@, cacheKey(row.parentPageId, row.name), row.pageId)]
  /\ UNCHANGED <<fbs, result, entry, pos, cursor, env, i, lastErr, thrown, hist>>

\* await this.prisma.notionPage.create(...): the row is written and the name
\* resolved, or the write conflicts with a row and throws
IssueWrite(c) ==
  /\ pc[c] = "write"
  /\ LET row == [pageId |-> current[c].newPageId, name |-> NameOf(c),
                 parentPageId |-> current[c].parentPageId]
     IN IF Conflicts(row)
        THEN /\ pc' = [pc EXCEPT ![c] = "deletePage"]
             /\ UNCHANGED <<current, known, remote>>
        ELSE /\ remote' = [remote EXCEPT !.rows = @ \cup {row}]
             /\ Resolved(c, row.pageId)
             /\ known' = [known EXCEPT ![IssuerOf(c)] =
                            cacheSet(@, cacheKey(row.parentPageId, row.name), row.pageId)]
  /\ UNCHANGED <<fbs, result, entry, pos, cursor, env, i, lastErr, thrown, hist>>

\* the write throws for another reason than a conflict, nothing written
IssueWriteFails(c) ==
  /\ pc[c] = "write"
  /\ env.budget > 0
  /\ env' = [env EXCEPT !.budget = @ - 1]
  /\ pc' = [pc EXCEPT ![c] = "deletePage"]
  /\ UNCHANGED <<fbs, result, entry, pos, current, cursor, known, remote, i, lastErr,
                 thrown, hist>>

\* catch { if (newPageId) await this.#deletePage(newPageId); continue }
IssueDeletePage(c) ==
  /\ pc[c] = "deletePage"
  /\ remote' = [remote EXCEPT !.pages = @ \ {current[c].newPageId}]
  /\ current' = [current EXCEPT ![c].newPageId = RootPageId]
  /\ pc' = [pc EXCEPT ![c] = "find"]
  /\ UNCHANGED <<fbs, result, entry, pos, cursor, known, env, i, lastErr, thrown, hist>>

\* #deletePage throws inside the catch block: issue() rejects
IssueDeleteFails(c) ==
  /\ pc[c] = "deletePage"
  /\ env.budget > 0
  /\ env' = [env EXCEPT !.budget = @ - 1]
  /\ pc' = [pc EXCEPT ![c] = "thrown"]
  /\ UNCHANGED <<fbs, result, entry, pos, current, cursor, known, remote, i, lastErr,
                 thrown, hist>>

NextIssue ==
  \E c \in Calls :
    \/ IssueNext(c)
    \/ IssueFind(c)
    \/ IssueRetry(c)
    \/ IssueCreatePage(c)
    \/ IssueWrite(c)
    \/ IssueWriteFails(c)
    \/ IssueDeletePage(c)
    \/ IssueDeleteFails(c)

\* concurrent PageIssuer.issue() calls, interleaved at their awaits
SpecIssue == InitIssue /\ [][NextIssue]_vars

(***************************************************************************)
(* migrator-example: Migrator (migrator.mts)                               *)
(*                                                                         *)
(* migrate() calls, one after the other, for one source page.  The         *)
(* variables stand for: pc, where #migrate stands; current, its locals     *)
(* (the mg object, needsImport, needsFreeze); remote, the                  *)
(* SourcePageMigration row of the page, how often its contents were        *)
(* created in Notion and whether the source page is frozen; env, the       *)
(* options of the Migrator, the calls still to come and the failures the   *)
(* services may still produce; hist, the errors recorded.                  *)
(***************************************************************************)
\* number of migrate() calls for the page
MaxRuns == 3
\* most failures of the database, Notion or the source in all the calls
MaxMigrateFailures == 2

\* findUnique found no row
NoRow == [exists |-> FALSE, importedAt |-> FALSE, freezedAt |-> FALSE]

\* the row made by #allocate: importedAt and freezedAt are null
NewRow == [exists |-> TRUE, importedAt |-> FALSE, freezedAt |-> FALSE]

InitMigrate ==
  /\ pc = "idle"
  /\ current = [mg |-> NoRow, needsImport |-> FALSE, needsFreeze |-> FALSE]
  /\ remote = [row |-> NoRow, contents |-> 0, frozen |-> FALSE]
  /\ env = [import |-> TRUE, freeze |-> TRUE, runs |-> MaxRuns, budget |-> MaxMigrateFailures]
  /\ hist = [errors |-> 0, failedImport |-> FALSE]
  /\ fbs = <<>>
  /\ known = <<>>
  /\ result = NoPlan
  /\ entry = 0
  /\ pos = 0
  /\ cursor = 0
  /\ i = 0
  /\ lastErr = NoError
  /\ thrown = NoError

\* a service call throws
Throws == env.budget > 0 /\ env' = [env EXCEPT !.budget = @ - 1]

\* this.#recordSourcePageMigrationError(url, ...)
recordError == [hist EXCEPT !.errors = @ + 1]

\* migrate(target) on a Migrator made with options { import, freeze }
Migrate ==
  /\ pc = "idle"
  /\ env.runs > 0
  /\ \E im, fr \in BOOLEAN : env' = [env EXCEPT !.import = im, !.freeze = fr, !.runs = @ - 1]
  /\ pc' = "findUnique"
  /\ hist' = [hist EXCEPT !.failedImport = FALSE]
  /\ UNCHANGED <<fbs, result, entry, pos, current, cursor, known, remote, i, lastErr, thrown>>

\* #migrate: findUnique, needsImport, needsFreeze, "nothing to do"
MigrateFindUnique ==
  /\ pc = "findUnique"
  /\ LET mg == remote.row
         needsImport == env.import /\ ~mg.importedAt
         needsFreeze == env.freeze /\ ~mg.freezedAt
     IN /\ current' = [mg |-> mg, needsImport |-> needsImport, needsFreeze |-> needsFreeze]
        /\ pc' = IF mg.exists /\ ~needsImport /\ ~needsFreeze THEN "return"
                 ELSE IF ~mg.exists THEN "allocate" ELSE "import"
  /\ UNCHANGED <<fbs, result, entry, pos, cursor, known, remote, env, i, lastErr, thrown, hist>>

\* findUnique or #allocate throws: #migrate throws, migrate() records the error
MigrateThrows ==
  /\ pc \in {"findUnique", "allocate"}
  /\ Throws
  /\ hist' = recordError
  /\ pc' = "idle"
  /\ UNCHANGED <<fbs, result, entry, pos, current, cursor, known, remote, i, lastErr, thrown>>

\* 1. allocate: the row is created
MigrateAllocate ==
  /\ pc = "allocate"
  /\ remote' = [remote EXCEPT !.row = NewRow]
  /\ current' = [current EXCEPT !.mg = NewRow]
  /\ pc' = "import"
  /\ UNCHANGED <<fbs, result, entry, pos, cursor, known, env, i, lastErr, thrown, hist>>

\* 2. import: if (needsImport) ... #import: if (mg.importedAt) return
MigrateImport ==
  /\ pc = "import"
  /\ pc' = IF current.needsImport /\ ~current.mg.importedAt THEN "create" ELSE "freeze"
  /\ UNCHANGED <<fbs, result, entry, pos, current, cursor, known, remote, env, i, lastErr,
                 thrown, hist>>

\* #import: page.contents() and create(...) return; mg.importedAt = new Date()
ImportCreate ==
  /\ pc = "create"
  /\ remote' = [remote EXCEPT !.contents = @ + 1]
  /\ current' = [current EXCEPT !.mg.importedAt = TRUE]
  /\ pc' = "updateImportedAt"
  /\ UNCHANGED <<fbs, result, entry, pos, cursor, known, env, i, lastErr, thrown, hist>>

\* #import: the update of importedAt returns
ImportUpdate ==
  /\ pc = "updateImportedAt"
  /\ remote' = [remote EXCEPT !.row.importedAt = TRUE]
  /\ pc' = "freeze"
  /\ UNCHANGED <<fbs, result, entry, pos, current, cursor, known, env, i, lastErr, thrown, hist>>

\* #import throws, from contents(), create() or the update: catch, "import
\* failed", the error recorded
ImportThrows ==
  /\ pc \in {"create", "updateImportedAt"}
  /\ Throws
  /\ hist' = [recordError EXCEPT !.failedImport = TRUE]
  /\ pc' = "freeze"
  /\ UNCHANGED <<fbs, result, entry, pos, current, cursor, known, remote, i, lastErr, thrown>>

\* 3. freeze: if (needsFreeze && mg.importedAt) ... #freeze: if (mg.freezedAt) return
MigrateFreeze ==
  /\ pc = "freeze"
  /\ pc' = IF current.needsFreeze /\ current.mg.importedAt /\ ~current.mg.freezedAt
           THEN "pageFreeze" ELSE "return"
  /\ UNCHANGED <<fbs, result, entry, pos, current, cursor, known, remote, env, i, lastErr,
                 thrown, hist>>

\* #freeze: page.freeze?.(...) returns; mg.freezedAt = new Date()
FreezePage ==
  /\ pc = "pageFreeze"
  /\ remote' = [remote EXCEPT !.frozen = TRUE]
  /\ current' = [current EXCEPT !.mg.freezedAt = TRUE]
  /\ pc' = "updateFreezedAt"
  /\ UNCHANGED <<fbs, result, entry, pos, cursor, known, env, i, lastErr, thrown, hist>>

\* #freeze: the update of freezedAt returns
FreezeUpdate ==
  /\ pc = "updateFreezedAt"
  /\ remote' = [remote EXCEPT !.row.freezedAt = TRUE]
  /\ pc' = "return"
  /\ UNCHANGED <<fbs, result, entry, pos, current, cursor, known, env, i, lastErr, thrown, hist>>

\* #freeze throws, from page.freeze or the update: catch, "freeze failed"
FreezeThrows ==
  /\ pc \in {"pageFreeze", "updateFreezedAt"}
  /\ Throws
  /\ hist' = recordError
  /\ pc' = "return"
  /\ UNCHANGED <<fbs, result, entry, pos, current, cursor, known, remote, i, lastErr, thrown>>

\* return mg; migrate(): if (mg.freezedAt) the errors of the url are deleted
MigrateReturn ==
  /\ pc = "return"
  /\ hist' = IF current.mg.freezedAt THEN [hist EXCEPT !.errors = 0] ELSE hist
  /\ pc' = "idle"
  /\ UNCHANGED <<fbs, result, entry, pos, current, cursor, known, remote, env, i, lastErr,
                 thrown>>

NextMigrate ==
  \/ Migrate
  \/ MigrateFindUnique
  \/ MigrateThrows
  \/ MigrateAllocate
  \/ MigrateImport
  \/ ImportCreate
  \/ ImportUpdate
  \/ ImportThrows
  \/ MigrateFreeze
  \/ FreezePage
  \/ FreezeUpdate
  \/ FreezeThrows
  \/ MigrateReturn

\* migrate() called again and again for one source page
SpecMigrate == InitMigrate /\ [][NextMigrate]_vars

(***************************************************************************)
(* The order of the remote operations                                      *)
(***************************************************************************)
\* execute() is resolving the path of the current entry or appending it
AtEntry == pc \in {"blockId", "list", "list_wait", "append", "append_wait"}

UpTo(n) == [k \in 1..n |-> k]

\* C21: the remote operations of one execute() are issued one at a time and
\* in plan order: while the path of entry e is resolved (its listings
\* included) and while its append is attempted, the appends that have
\* returned are exactly those of entries 1..e-1, in that order; a step
\* issues or ends at most one operation, and an append returns only for the
\* entry at hand.
C21_Sequential ==
  /\ [](AtEntry => (entry \in 1..Len(ThePlan) /\ hist.applied = UpTo(entry - 1)))
  /\ []((pc = "loop" /\ Planned) => hist.applied = UpTo(entry))
  /\ [][/\ entry' \in {entry, entry + 1}
        /\ entry' = entry + 1 => (pc = "loop" /\ hist.applied = UpTo(entry))
        /\ hist'.applied # hist.applied =>
             (pc = "append" /\ hist'.applied = Append(hist.applied, entry))]_vars

C21_Witness ==
  /\ pc = "list"
  /\ entry >= 3
  /\ hist.applied = UpTo(entry - 1)
  /\ hist.attempts >= 1
  /\ lastErr \in TransientErrors

(***************************************************************************)
(* The root's children                                                     *)
(***************************************************************************)
\* the ids returned by the appends of the entries with path = [] so far
RootResults ==
  Flatten([k \in 1..Len(hist.returned) |->
             IF ThePlan[hist.applied[k]].path = <<>> THEN hist.returned[k] ELSE <<>>])

\* the children of the root are never listed
RootNeverListed == pc \in {"list", "list_wait"} => current # RootId

\* the root's cached children are the ids its own appends returned, in order
RootCacheIsResults == (Planned /\ result.status = "ok") => known[RootId] = RootResults

\* C22: the root is never listed; its cached children are at every point the
\* ids returned by the path = [] appends of this execute(), in call order and
\* in the order returned; so the root-level index k stands for the k-th block
\* that this execute() created under the root, the (pre + k)-th child of the
\* root in the store.
C22_RootCache ==
  /\ RootNeverListed
  /\ RootCacheIsResults
  /\ (Planned /\ result.status = "ok") =>
       \A k \in 1..Len(known[RootId]) : known[RootId][k] = <<env.pre + k - 1>>

\* the two first parts of C22, which hold in every run
C22_RootCacheOfResults == RootNeverListed /\ RootCacheIsResults

\* without an attempt applied by the store and reported as failed, all of it
C22_RootCacheUnlessLost == hist.lost = 0 => C22_RootCache

(***************************************************************************)
(* The listing of children                                                 *)
(***************************************************************************)
ThePath == ThePlan[entry].path

\* the ids of all the children the block at a place has in the store, in order
AllChildIds(place) ==
  LET id == blockIdOf(place) IN ChildIds(id, 0, Len(NodeAt(remote, id).children))

NoRepeat(s) == \A a, b \in 1..Len(s) : s[a] = s[b] => a = b

\* C23: children are listed only for a node that is not the root and lies
\* strictly before the end of the path being resolved, and only when its
\* children are not cached; the listing goes on page after page until the
\* store returns no cursor, so that the cache then holds the ids of all the
\* children in the order returned; no node is listed twice in one execute().
C23_Listing ==
  /\ [](pc \in {"list", "list_wait"} =>
          /\ current # RootId
          /\ pos < Len(ThePath)
          /\ current = SubSeq(ThePath, 1, pos)
          /\ Last(hist.listed) = current
          /\ known[current] = SubSeq(AllChildIds(current), 1, cursor))
  /\ [](NoRepeat(hist.listed) /\ DOMAIN known = {RootId} \cup Range(hist.listed))
  /\ [][/\ (pc = "blockId" /\ pc' = "list") => current \notin DOMAIN known
        /\ (pc = "list" /\ pc' = "blockId") => known'[current] = AllChildIds(current)
        /\ (pc = "list" /\ pc' = "list") =>
             /\ cursor' = Len(known'[current])
             /\ cursor' < Len(AllChildIds(current))
        /\ \A place \in DOMAIN known \ {RootId} :
             pc # "list" => (place \in DOMAIN known' /\ known'[place] = known[place])]_vars

\* a path is resolved through children listed page by page for an earlier entry
C23_Witness ==
  /\ pc = "blockId"
  /\ hist.op = "append"
  /\ pos < Len(ThePath)
  /\ current # RootId
  /\ current \in DOMAIN known
  /\ Len(known[current]) >= 2
  /\ env.pageSize = 1
  /\ Len(hist.listed) >= 2

(***************************************************************************)
(* The cached children against the store                                   *)
(***************************************************************************)
\* blockId() is about to step through the cached children of current
Resolving == pc = "blockId" /\ pos < Len(ThePath) /\ current \in DOMAIN known

\* the ids of the children the root has got since create() began
CreatedRootIds == ChildIds(RootId, env.pre, Len(remote.children) - env.pre)

\* no append targets a node whose children have been listed
NoAppendToListed == pc \in {"append", "append_wait"} => current \notin Range(hist.listed)

\* no index of a path is out of the range of the cached list it is used on
IndexInRange ==
  /\ Resolving => ThePath[pos + 1] + 1 \in 1..Len(known[current])
  /\ Planned => thrown.class # "TypeError"

\* a listed node's cached children are all the children it has in the store
ListedCacheComplete ==
  (Resolving /\ current # RootId) => known[current] = AllChildIds(current)

\* C24: whenever blockId() steps through a node's cached children, the cache
\* equals the node's whole list of children in the store (for the root:
\* the children that this execute() created); no append targets a node after
\* its children were listed, and no path index is out of range of the cache.
C24_CacheIsCurrent ==
  /\ ListedCacheComplete
  /\ (Resolving /\ current = RootId) => known[RootId] = CreatedRootIds
  /\ NoAppendToListed
  /\ IndexInRange

\* the parts of C24 that hold in every run
C24_ListedCacheIsCurrent == ListedCacheComplete /\ NoAppendToListed /\ IndexInRange

\* without an attempt applied by the store and reported as failed, all of it
C24_CacheIsCurrentUnlessLost == hist.lost = 0 => C24_CacheIsCurrent

(***************************************************************************)
(* Retried appends                                                         *)
(***************************************************************************)
\* C25: within one create() the units of each plan entry are created in the
\* store at most once, also when an append attempt that the store applied is
\* reported as a transient failure and retried: at every point the store
\* holds no block beyond those that the whole plan, each entry applied once,
\* creates.
C25_CreatedOnce == Planned => Extends(remote, StoreAfter(Len(ThePlan)))

\* when no applied attempt is reported as failed, the units are created once
C25_CreatedOnceUnlessLost == (Planned /\ hist.lost = 0) => Extends(remote, StoreAfter(Len(ThePlan)))

(***************************************************************************)
(* The ways plan() ends                                                    *)
(***************************************************************************)
\* C26: for every Block forest plan() either returns a plan or ends by
\* calling the error handler; it fails with no other exception, a table or
\* column_list with no children, or with all its children in overflow
\* entries, included.
C26_PlanOrHandler == PlanCalled => result.status \in {"ok", "onError"}

(***************************************************************************)
(* Termination                                                             *)
(***************************************************************************)
Ended == pc \in {"done", "thrown"}

\* C27: execute() ends, by returning or by throwing, for every plan, each
\* remote attempt returning or failing and each listing having finitely many
\* pages; no remote operation is attempted more than DEFAULT_RETRY_COUNT + 1
\* times and the loop visits the entries once each, in order, none twice.
C27_Terminates ==
  /\ [](Planned => <>Ended)
  /\ [](hist.attempts <= DEFAULT_RETRY_COUNT + 1)
  /\ [](Planned => entry \in 0..Len(ThePlan))
  /\ [][entry' \in {entry, entry + 1} /\ (Ended => UNCHANGED vars)]_vars

C27_Witness ==
  /\ pc = "done"
  /\ Len(ThePlan) >= 3
  /\ env.pageSize = 1
  /\ Len(hist.listed) >= 2
  /\ env.budget = 0
  /\ hist.lost > 0

(***************************************************************************)
(* The delays                                                              *)
(***************************************************************************)
Waiting == pc \in {"list_wait", "append_wait"}

\* C28: under the default policy the delay taken after the k-th transient
\* failure in a row of an operation, k = 1..12, is 1000 * 2^(k - 1)
\* milliseconds: one second first, doubled each time; no delay precedes the
\* first attempt and none follows an attempt that succeeded.
C28_Delays ==
  /\ [](/\ hist.delays = DelaysBefore(Len(hist.delays))
        /\ Len(hist.delays) <= DEFAULT_RETRY_COUNT
        /\ hist.attempts = 0 => hist.delays = <<>>
        /\ Waiting => (lastErr \in TransientErrors /\ hist.attempts = Len(hist.delays) + 1))
  /\ [][/\ Len(hist'.delays) > Len(hist.delays) =>
             /\ Waiting
             /\ lastErr \in TransientErrors
             /\ hist'.delays = Append(hist.delays, 1000 * 2^(hist.attempts - 1))
        /\ (pc \in {"list", "append"} /\ lastErr' = NoError) =>
             /\ ~Waiting'
             /\ hist'.delays \in {hist.delays, <<>>}]_vars

C28_Witness ==
  /\ pc = "append"
  /\ Len(hist.delays) = DEFAULT_RETRY_COUNT
  /\ hist.delays[1] = 1000
  /\ hist.delays[DEFAULT_RETRY_COUNT] = 2048000
  /\ Len(hist.applied) >= 1

(***************************************************************************)
(* Concurrent issue() calls                                                *)
(***************************************************************************)
\* the pairs (parent page, name) that call c has resolved, each with the id
ResolvedBy(c) ==
  {[parentPageId |-> IF k = 1 THEN RootPageId ELSE current[c].trail[k - 1],
    name |-> fbs[c][k], pageId |-> current[c].trail[k]] : k \in 1..Len(current[c].trail)}

MadeBy(c) == {m.page : m \in {x \in hist.made : x.call = c}}

RowPages == {r.pageId : r \in remote.rows}

\* C29: however concurrent issue() calls interleave, the database keeping
\* (parentPageId, name) unique: all the calls that resolve the same pair get
\* the same page id, and so return the same id for the same path; exactly
\* one NotionPage row exists for a resolved pair, and its page exists; and
\* every page created by a call whose write lost is deleted before the call
\* goes on, so that a call that returned has left no page but those of rows.
C29_IssueOnce ==
  /\ \A c, d \in Calls : \A x \in ResolvedBy(c), y \in ResolvedBy(d) :
       (x.parentPageId = y.parentPageId /\ x.name = y.name) => x.pageId = y.pageId
  /\ \A c, d \in Calls :
       (pc[c] = "returned" /\ pc[d] = "returned" /\ fbs[c] = fbs[d])
         => current[c].pageId = current[d].pageId
  /\ \A c \in Calls : \A x \in ResolvedBy(c) :
       /\ RowsWhere(x.parentPageId, x.name) =
            {[pageId |-> x.pageId, name |-> x.name, parentPageId |-> x.parentPageId]}
       /\ x.pageId \in remote.pages
  /\ \A c \in Calls :
       /\ pc[c] \in {"cache", "find", "createPage", "returned"} =>
            \A p \in MadeBy(c) : p \in remote.pages => p \in RowPages
       /\ pc[c] \in {"write", "deletePage", "thrown"} =>
            \A p \in MadeBy(c) : p \in remote.pages => (p \in RowPages \/ p = current[c].newPageId)

\* all calls have returned, one of them after it lost a write and deleted
\* its page, another from the cache
C29_Witness ==
  /\ \A c \in Calls : pc[c] = "returned"
  /\ \E c \in Calls : MadeBy(c) \ remote.pages # {}
  /\ \E c, d \in Calls : c # d /\ fbs[c] = fbs[d] /\ Len(fbs[c]) = 2 /\ MadeBy(d) # {}
  /\ Cardinality(remote.rows) = 2

(***************************************************************************)
(* Import before freeze                                                    *)
(***************************************************************************)
\* C30: the freeze step of a source page, page.freeze and the recording of
\* freezedAt, is performed only after the import of the page has succeeded
\* and importedAt is recorded; an import that failed or was skipped leaves
\* the page unfrozen and freezedAt unset.
C30_FreezeAfterImport ==
  /\ remote.frozen => remote.row.importedAt
  /\ remote.row.freezedAt => remote.row.importedAt
  /\ pc \in {"pageFreeze", "updateFreezedAt"} => (remote.row.importedAt /\ ~hist.failedImport)

\* what holds of the freeze step: the contents were created in Notion before
C30_FreezeAfterCreate ==
  /\ (remote.frozen \/ remote.row.freezedAt) => remote.contents >= 1
  /\ pc \in {"pageFreeze", "updateFreezedAt"} => remote.contents >= 1

\* importedAt not recorded though the page is frozen: the next call imports
\* the contents once more
C30_ImportedTwice == remote.contents >= 2 /\ remote.row.freezedAt

====
